---------------------------- MODULE Spec2Model ----------------------------
(***************************************************************************)
(* editor4ai: the sandboxed file-editing core (packages/lib) and the MCP   *)
(* adapter that calls it (packages/server).                                *)
(*                                                                         *)
(* A path is a sequence of segments.  A text (a file's content, a message) *)
(* is a sequence of tokens; the token NL is the newline.  The filesystem   *)
(* is a function from absolute paths to nodes.  Every handler runs to its  *)
(* end in one action, from "idle" to "done"; Respond hands the result to   *)
(* the client.  The concurrent specification splits an edit at its awaits. *)
(***************************************************************************)
EXTENDS Integers, Sequences, FiniteSets, TLC

VARIABLES
    disk,             \* the filesystem: absolute path -> node
    excludedPattern,  \* Core.excludedPattern: the session's exclusion patterns
    pc,               \* "idle" | "done": the adapter's position
    call,             \* the handler call that has just run (NoCall when idle)
    served,           \* requests answered so far
    procs,            \* concurrent edit/write/read requests in flight
    tmp,              \* the temporary file each in-flight write fills
    observed,         \* what concurrent reads have returned
    config,           \* the configuration the adapter loaded at start
    log,              \* the request log: one entry per requestLog call
    handled,          \* the request id each tool request so far ran under
    logFiles,         \* the files in the directories logs are written to
    today,            \* the current day, counted from the first one
    loadedOn          \* the day logs.ts was loaded on (NotLoaded before)

vars ==
    <<disk, excludedPattern, pc, call, served, procs, tmp, observed, config, log,
      handled, logFiles, today, loadedOn>>

\* ------------------------------------------------------------------ bounds

\* Longest input path, in segments.
MaxPathLen == 2
\* Longest document the edit specification starts from, in lines.
MaxLines == 3
\* Most operations in one edit batch.
MaxBatch == 2
\* Requests one session of the sandbox specification handles.
MaxCalls == 2

\* ------------------------------------------------------------------- paths

NL == "\n"

\* The project root /r, and the segments input paths are built from.
Root == <<"r">>
Segs == {"a", "x", "ln", ".."}

RECURSIVE SeqsUpTo(_, _)
SeqsUpTo(S, n) ==
    IF n = 0 THEN {<<>>}
    ELSE LET shorter == SeqsUpTo(S, n - 1)
         IN  shorter \cup {Append(s, e) : s \in shorter, e \in S}

InputPaths == SeqsUpTo(Segs, MaxPathLen)

IsPrefix(p, q) == Len(p) <= Len(q) /\ SubSeq(q, 1, Len(p)) = p

DropFirst(s, n) == SubSeq(s, n + 1, Len(s))

\* path.resolve's normalisation of an absolute path: "." is dropped, ".."
\* removes the segment before it and stays at "/" when there is none.
RECURSIVE NormalizeFrom(_, _)
NormalizeFrom(done, rest) ==
    IF rest = <<>> THEN done
    ELSE IF Head(rest) = "." THEN NormalizeFrom(done, Tail(rest))
    ELSE IF Head(rest) = ".."
         THEN NormalizeFrom(IF done = <<>> THEN <<>>
                            ELSE SubSeq(done, 1, Len(done) - 1), Tail(rest))
    ELSE NormalizeFrom(Append(done, Head(rest)), Tail(rest))

Normalize(p) == NormalizeFrom(<<>>, p)

\* The one symbolic link of the modelled tree: /r/ln points at /a, outside.
LinkPath == <<"r", "ln">>
LinkTarget == <<"a">>

RealPath(p) ==
    IF IsPrefix(LinkPath, p) THEN LinkTarget \o DropFirst(p, Len(LinkPath)) ELSE p

\* The prefix check asking for a proper prefix: the root itself is rejected.
resolveSafeProjectPath_properPrefix(path, projectPath) ==
    LET real == RealPath(Normalize(projectPath \o path))
    IN  IF IsPrefix(projectPath, real) /\ real # projectPath
        THEN [err |-> "none", path |-> real]
        ELSE [err |-> "PathEscapeError", path |-> <<>>]

\* resolveSafeProjectPath(path, projectPath): the logical path is taken
\* relative to the root, normalised, its links resolved, and rejected when
\* the result does not lie in the root.
resolveSafeProjectPath(path, projectPath) ==
    LET real == RealPath(Normalize(projectPath \o path))
    IN  IF IsPrefix(projectPath, real)
        THEN [err |-> "none", path |-> real]
        ELSE [err |-> "PathEscapeError", path |-> <<>>]

\* ------------------------------------------------------ exclusion patterns

\* A pattern is a sequence of segment patterns: a name, "*" (one segment)
\* or "**" (any number of segments; as the last segment, at least one).
RECURSIVE GlobMatch(_, _)
GlobMatch(pat, p) ==
    IF pat = <<>> THEN p = <<>>
    ELSE IF Head(pat) = "**"
         THEN IF Len(pat) = 1 THEN p # <<>>
              ELSE \E k \in 0..Len(p) : GlobMatch(Tail(pat), DropFirst(p, k))
    ELSE /\ p # <<>>
         /\ Head(pat) = "*" \/ Head(pat) = Head(p)
         /\ GlobMatch(Tail(pat), Tail(p))

\* The path a pattern is matched against: the part below the project root.
ProjectRelative(filePath) ==
    IF IsPrefix(Root, filePath) THEN DropFirst(filePath, Len(Root)) ELSE filePath

\* util.isExcluded(filePath, excludedFiles)
isExcluded(filePath, patterns) ==
    \E i \in DOMAIN patterns : GlobMatch(patterns[i], ProjectRelative(filePath))

checkExcludedFiles_inverted(filePath, patterns) ==
    IF isExcluded(filePath, patterns) THEN "none" ELSE "PathRestrictedError"

\* checkExcludedFiles: throws when the path is excluded.
checkExcludedFiles(filePath, patterns) ==
    IF isExcluded(filePath, patterns) THEN "PathRestrictedError" ELSE "none"

\* isExcludedFiles: the same test as a boolean.
isExcludedFiles(filePath, patterns) ==
    IF isExcluded(filePath, patterns) THEN TRUE ELSE FALSE

\* An optional list of the configuration: present with its items, or missing.
Missing == [set |-> FALSE, items |-> <<>>]
Listed(items) == [set |-> TRUE, items |-> items]

\* config.excluded_files, the current project's excluded_files and scripts.
Config(globalExcluded, projectExcluded, scripts) ==
    [excluded_files |-> globalExcluded, log_path |-> Missing,
     project |-> [excluded_files |-> projectExcluded, scripts |-> scripts]]

Configs ==
    { Config(Missing, Listed(<< <<"x", "**">> >>), Missing),
      Config(Listed(<< <<"a">> >>), Listed(<< <<"x", "**">> >>), Missing),
      Config(Listed(<< <<"a", "**">> >>), Missing, Missing) }

allExcludedFiles_projectOnly(cfg) ==
    IF cfg.project.excluded_files.set THEN cfg.project.excluded_files.items
    ELSE IF cfg.excluded_files.set THEN cfg.excluded_files.items ELSE <<>>

\* allExcludedFiles: the global list, then the project's list appended.
allExcludedFiles(cfg) ==
    LET global == IF cfg.excluded_files.set THEN cfg.excluded_files.items ELSE <<>>
    IN  IF cfg.project.excluded_files.set
        THEN global \o cfg.project.excluded_files.items
        ELSE global

\* The exclusion sets a session is configured with.
PatternSets == {allExcludedFiles(cfg) : cfg \in Configs}

\* -------------------------------------------------------------------- text

\* The absolute project root as it appears inside a text.
RootTok == "/r"

\* An absolute path written into a message.
PathText(p) ==
    IF IsPrefix(Root, p) THEN <<RootTok>> \o DropFirst(p, Len(Root))
    ELSE <<"/">> \o p

ContainsRoot(text) == \E i \in DOMAIN text : text[i] = RootTok

\* convertToRelativePaths(text, projectPath): every occurrence of the
\* absolute root in the text is replaced by the empty string.
convertToRelativePaths(text, projectPath) ==
    [i \in DOMAIN text |-> IF text[i] = RootTok THEN "" ELSE text[i]]

\* content.split('\n')
RECURSIVE SplitFrom(_, _)
SplitFrom(text, cur) ==
    IF text = <<>> THEN <<cur>>
    ELSE IF Head(text) = NL THEN <<cur>> \o SplitFrom(Tail(text), <<>>)
    ELSE SplitFrom(Tail(text), Append(cur, Head(text)))

Split(text) == SplitFrom(text, <<>>)

\* lines.join('\n')
RECURSIVE Join(_)
Join(lines) ==
    IF lines = <<>> THEN <<>>
    ELSE IF Len(lines) = 1 THEN lines[1]
    ELSE lines[1] \o <<NL>> \o Join(Tail(lines))

\* -------------------------------------------------------------- filesystem

Absent == [kind |-> "absent", text |-> <<>>]
Dir == [kind |-> "dir", text |-> <<>>]
Link == [kind |-> "link", text |-> <<>>]
File(text) == [kind |-> "file", text |-> text]

\* The paths of the modelled filesystem; a call on any other path fails in
\* the filesystem (its parent does not exist).
FsPaths ==
    { <<>>, Root, <<"r", "a">>, <<"r", "x">>, <<"r", "x", "a">>, <<"r", "x", "x">>,
      LinkPath, LinkTarget }

InitialText == <<"a", NL, "b">>

InitDisk ==
    [p \in FsPaths |->
        CASE p = <<>> -> Dir
          [] p = Root -> Dir
          [] p = <<"r", "a">> -> File(InitialText)
          [] p = <<"r", "x">> -> Dir
          [] p = <<"r", "x", "a">> -> File(<<RootTok, "a">>)
          [] p = <<"r", "x", "x">> -> Absent
          [] p = LinkPath -> Link
          [] OTHER -> File(<<"o">>)]

Node(d, p) == IF p \in DOMAIN d THEN d[p] ELSE Absent

Parent(p) == SubSeq(p, 1, Len(p) - 1)

\* A path a file can be created or overwritten at.
Writable(d, p) ==
    /\ p \in DOMAIN d
    /\ Node(d, p).kind \in {"absent", "file"}
    /\ Node(d, Parent(p)).kind = "dir"

\* What a handler call comes to: the filesystem it leaves, how it ended,
\* the filesystem calls it made, and the text and content it returns.
Result(d, outcome, fsCalls, ret, content) ==
    [disk |-> d, outcome |-> outcome, fsCalls |-> fsCalls,
     ret |-> ret, content |-> content]

FsCall(op, p) == [op |-> op, path |-> p]

IsWrite(c) == c.op \in {"write", "unlink", "rename", "mkdir", "rmdir"}

\* An error of the filesystem names the absolute path it failed on.
FsError(d, kind, fsCalls, p) ==
    Result(d, kind, fsCalls, <<kind>> \o PathText(p), <<>>)

\* An error thrown before any filesystem call.
Thrown(d, kind) == Result(d, kind, <<>>, <<kind>>, <<>>)

readTextFileWithOptions(d, p) ==
    LET calls == <<FsCall("read", p)>>
    IN  IF Node(d, p).kind = "file"
        THEN Result(d, "ok", calls, <<>>, Node(d, p).text)
        ELSE FsError(d, "FileNotFoundError", calls, p)

writeTextFile(d, p, content) ==
    LET calls == <<FsCall("write", p)>>
    IN  IF Writable(d, p)
        THEN Result([d EXCEPT ![p] = File(content)], "ok", calls,
                    <<"wrote">> \o PathText(p), <<>>)
        ELSE FsError(d, "IOFailure", calls, p)

deleteFile(d, p) ==
    LET calls == <<FsCall("unlink", p)>>
    IN  IF Node(d, p).kind = "file"
        THEN Result([d EXCEPT ![p] = Absent], "ok", calls,
                    <<"deleted">> \o PathText(p), <<>>)
        ELSE FsError(d, "FileNotFoundError", calls, p)

fileMoveOrRename(d, src, dst) ==
    LET calls == <<FsCall("rename", src), FsCall("rename", dst)>>
    IN  IF Node(d, src).kind # "file"
        THEN FsError(d, "FileNotFoundError", calls, src)
        ELSE IF ~Writable(d, dst) THEN FsError(d, "IOFailure", calls, dst)
        ELSE Result([[d EXCEPT ![src] = Absent] EXCEPT ![dst] = d[src]],
                    "ok", calls,
                    <<"moved">> \o PathText(src) \o PathText(dst), <<>>)

createDirectory(d, p) ==
    LET calls == <<FsCall("mkdir", p)>>
    IN  IF Node(d, p).kind = "dir"
        THEN Result(d, "ok", calls, <<"created">> \o PathText(p), <<>>)
        ELSE IF p \in DOMAIN d /\ Node(d, p).kind = "absent"
                /\ Node(d, Parent(p)).kind = "dir"
        THEN Result([d EXCEPT ![p] = Dir], "ok", calls,
                    <<"created">> \o PathText(p), <<>>)
        ELSE FsError(d, "IOFailure", calls, p)

removeDirectory(d, p) ==
    LET calls == <<FsCall("rmdir", p)>>
    IN  IF Node(d, p).kind = "dir" /\ p # Root  \* the root cannot be removed
        THEN Result([q \in DOMAIN d |-> IF IsPrefix(p, q) THEN Absent ELSE d[q]],
                    "ok", calls, <<"removed">> \o PathText(p), <<>>)
        ELSE FsError(d, "DirectoryNotFoundError", calls, p)

\* The names of a directory's entries, sorted.
SegOrder == <<"a", "ln", "x">>

Children(d, p) ==
    LET all == [i \in DOMAIN SegOrder |-> Append(p, SegOrder[i])]
    IN  SelectSeq(all, LAMBDA q : Node(d, q).kind # "absent")

RECURSIVE FlattenPaths(_)
FlattenPaths(items) ==
    IF items = <<>> THEN <<>>
    ELSE IF Len(items) = 1 THEN PathText(items[1])
    ELSE PathText(items[1]) \o <<NL>> \o FlattenPaths(Tail(items))

\* listFiles(dirPath, filter): the absolute paths of the directory's entries.
listFiles(d, p) ==
    LET calls == <<FsCall("readdir", p)>>
    IN  IF Node(d, p).kind = "dir"
        THEN [res |-> Result(d, "ok", calls, <<>>, <<>>), items |-> Children(d, p)]
        ELSE [res |-> FsError(d, "DirectoryNotFoundError", calls, p), items |-> <<>>]

\* generateDirectoryTree(dirPath, {exclude}): one line per entry that no
\* pattern matches, under its parent; only real directories are entered.
DepthTok == <<"-", "--", "---", "----">>

\* A walk that enters what a link points to, a few levels deep.
RECURSIVE TreeLines_followLinks(_, _, _, _)
TreeLines_followLinks(d, entries, exclude, depth) ==
    IF entries = <<>> THEN <<>>
    ELSE LET q == Head(entries)
             rest == TreeLines_followLinks(d, Tail(entries), exclude, depth)
             into == IF Node(d, q).kind = "link" THEN Node(d, q).text ELSE q
         IN  IF isExcluded(q, exclude) THEN rest
             ELSE <<NL, DepthTok[depth], q[Len(q)]>>
                  \o (IF Node(d, into).kind = "dir" /\ depth < Len(DepthTok) - 1
                      THEN TreeLines_followLinks(d, Children(d, into), exclude, depth + 1)
                      ELSE <<>>)
                  \o rest

RECURSIVE TreeLines(_, _, _, _)
TreeLines(d, entries, exclude, depth) ==
    IF entries = <<>> THEN <<>>
    ELSE LET q == Head(entries)
             rest == TreeLines(d, Tail(entries), exclude, depth)
         IN  IF isExcluded(q, exclude) THEN rest
             ELSE <<NL, DepthTok[depth], q[Len(q)]>>
                  \o (IF Node(d, q).kind = "dir"
                      THEN TreeLines(d, Children(d, q), exclude, depth + 1)
                      ELSE <<>>)
                  \o rest

generateDirectoryTree(d, p, exclude) ==
    LET calls == <<FsCall("readdir", p)>>
    IN  IF Node(d, p).kind = "dir"
        THEN Result(d, "ok", calls,
                    PathText(p) \o TreeLines(d, Children(d, p), exclude, 1), <<>>)
        ELSE FsError(d, "DirectoryNotFoundError", calls, p)

\* fileGrep(filePath, pattern, options): the lines holding the pattern, each
\* with the file's path.
LineHas(line, pattern) == \E i \in DOMAIN line : line[i] = pattern

RECURSIVE GrepLines(_, _, _, _)
GrepLines(lines, n, pattern, p) ==
    IF n > Len(lines) THEN <<>>
    ELSE (IF LineHas(lines[n], pattern) THEN PathText(p) \o lines[n] \o <<NL>>
          ELSE <<>>)
         \o GrepLines(lines, n + 1, pattern, p)

fileGrep(d, p, pattern) ==
    LET calls == <<FsCall("read", p)>>
    IN  IF Node(d, p).kind = "file"
        THEN Result(d, "ok", calls,
                    <<"matches">> \o GrepLines(Split(Node(d, p).text), 1, pattern, p),
                    <<>>)
        ELSE FsError(d, "FileNotFoundError", calls, p)

\* ------------------------------------------------ search with options

\* A directory's entries in the order the filesystem enumerates them: enum
\* is the order of the names.
readdir(d, p, enum) ==
    LET all == [i \in DOMAIN enum |-> Append(p, enum[i])]
    IN  SelectSeq(all, LAMBDA q : Node(d, q).kind # "absent")

NameRank(name) == CHOOSE i \in DOMAIN SegOrder : SegOrder[i] = name

\* Sorted insertion by rank: files before directories, then by name.
EntryRank(d, q) ==
    (IF Node(d, q).kind = "file" THEN 0 ELSE Len(SegOrder)) + NameRank(q[Len(q)])

RECURSIVE InsertEntry(_, _, _)
InsertEntry(d, q, sorted) ==
    IF sorted = <<>> THEN <<q>>
    ELSE IF EntryRank(d, q) <= EntryRank(d, Head(sorted)) THEN <<q>> \o sorted
    ELSE <<Head(sorted)>> \o InsertEntry(d, q, Tail(sorted))

SortEntries_asEnumerated(d, entries) == entries

RECURSIVE SortEntries(_, _)
SortEntries(d, entries) ==
    IF entries = <<>> THEN <<>>
    ELSE InsertEntry(d, Head(entries), SortEntries(d, Tail(entries)))

Min(a, b) == IF a < b THEN a ELSE b
Max(a, b) == IF a > b THEN a ELSE b

\* The lines around line n that a match carries.
ContextBefore(lines, n, c) == SubSeq(lines, Max(1, n - c), n - 1)
ContextAfter(lines, n, c) == SubSeq(lines, n + 1, Min(Len(lines), n + c))

SearchMatch(p, lines, n, c) ==
    [filePath |-> p, lineNumber |-> n, line |-> lines[n],
     before |-> ContextBefore(lines, n, c), after |-> ContextAfter(lines, n, c)]

\* options: context, maxResults (0 when not given) and exclude.
GrepOptions(context, maxResults, exclude) ==
    [context |-> context, maxResults |-> maxResults, exclude |-> exclude]

\* A scan so far: the matches collected, the lines tested, the calls made.
NoScan == [matches |-> <<>>, scanned |-> <<>>, fsCalls |-> <<>>]

CapReached(acc, options) ==
    options.maxResults > 0 /\ Len(acc.matches) >= options.maxResults

RECURSIVE ScanLines(_, _, _, _, _, _)
ScanLines(acc, lines, n, p, pattern, options) ==
    IF n > Len(lines) \/ CapReached(acc, options) THEN acc
    ELSE ScanLines(
            [acc EXCEPT
                !.matches = IF LineHas(lines[n], pattern)
                            THEN Append(@, SearchMatch(p, lines, n, options.context))
                            ELSE @,
                !.scanned = Append(@, <<p, n>>)],
            lines, n + 1, p, pattern, options)

ScanFile(acc, d, p, pattern, options) ==
    ScanLines([acc EXCEPT !.fsCalls = Append(@, FsCall("read", p))],
              Split(Node(d, p).text), 1, p, pattern, options)

\* The walk of projectGrep: entries the per-call exclude matches are
\* skipped, files are scanned, real directories are entered.
RECURSIVE WalkEntries(_, _, _, _, _, _)
WalkEntries(acc, d, entries, pattern, options, enum) ==
    IF entries = <<>> \/ CapReached(acc, options) THEN acc
    ELSE LET q == Head(entries)
             next ==
                IF isExcluded(q, options.exclude) THEN acc
                ELSE IF Node(d, q).kind = "file"
                THEN ScanFile(acc, d, q, pattern, options)
                ELSE IF Node(d, q).kind = "dir"
                THEN WalkEntries([acc EXCEPT !.fsCalls = Append(@, FsCall("readdir", q))],
                                 d, SortEntries(d, readdir(d, q, enum)),
                                 pattern, options, enum)
                ELSE acc
         IN  WalkEntries(next, d, Tail(entries), pattern, options, enum)

\* What a search comes to: a Result and the scan behind it.
ScanResult(d, outcome, ret, scan) ==
    [disk |-> d, outcome |-> outcome, fsCalls |-> scan.fsCalls, ret |-> ret,
     content |-> <<>>, matches |-> scan.matches, scanned |-> scan.scanned]

ScanThrown(d, kind) == ScanResult(d, kind, <<kind>>, NoScan)

\* The matches as text: each with the path of its file.
RECURSIVE MatchesText(_)
MatchesText(matches) ==
    IF matches = <<>> THEN <<>>
    ELSE PathText(Head(matches).filePath) \o Head(matches).line \o <<NL>>
         \o MatchesText(Tail(matches))

\* projectGrep(rootPath, pattern, options)
projectGrep(d, rootPath, pattern, options, enum) ==
    LET start == [NoScan EXCEPT !.fsCalls = <<FsCall("readdir", rootPath)>>]
    IN  IF Node(d, rootPath).kind = "dir"
        THEN ScanResult(d, "ok", <<>>,
                 WalkEntries(start, d, SortEntries(d, readdir(d, rootPath, enum)),
                             pattern, options, enum))
        ELSE ScanResult(d, "DirectoryNotFoundError",
                        <<"DirectoryNotFoundError">> \o PathText(rootPath), start)

\* fileGrep(filePath, pattern, options), with its options.
fileGrepWithOptions(d, p, pattern, options) ==
    IF Node(d, p).kind = "file"
    THEN ScanResult(d, "ok", <<>>, ScanFile(NoScan, d, p, pattern, options))
    ELSE ScanResult(d, "FileNotFoundError", <<"FileNotFoundError">> \o PathText(p),
                    [NoScan EXCEPT !.fsCalls = <<FsCall("read", p)>>])


\* ---------------------------------------------------------- line editing

\* Array.prototype.splice(start, deleteCount, ...items), start 0-based.
Splice(lines, start, deleteCount, items) ==
    LET s == IF start > Len(lines) THEN Len(lines) ELSE start
        k == IF deleteCount > Len(lines) - s THEN Len(lines) - s ELSE deleteCount
    IN  SubSeq(lines, 1, s) \o items \o SubSeq(lines, s + k + 1, Len(lines))

\* One operation of a batch as the splice it asks for: the lines first..last
\* it addresses, the 0-based index the splice is made at, and the new lines.
\* A replace that leaves the last line of its range in place.
EditSplice_keepLast(e) ==
    [first |-> e.startLine, last |-> e.endLine, at |-> e.startLine - 1,
     del |-> e.endLine - e.startLine, items |-> Split(e.content)]

EditSplice(e) ==
    [first |-> e.startLine, last |-> e.endLine, at |-> e.startLine - 1,
     del |-> e.endLine - e.startLine + 1, items |-> Split(e.content)]

DeleteSplice(e) ==
    [first |-> e.startLine, last |-> e.endLine, at |-> e.startLine - 1,
     del |-> e.endLine - e.startLine + 1, items |-> <<>>]

InsertSplice(e, afterMode) ==
    [first |-> e.lineNumber, last |-> e.lineNumber,
     at |-> IF afterMode THEN e.lineNumber ELSE e.lineNumber - 1,
     del |-> 0, items |-> Split(e.content)]

\* The batch's validation: every bound at least 1, no range reversed, no
\* two ranges (or insert points) sharing a line.
RangesOverlap(s, t) == s.first <= t.last /\ t.first <= s.last

ValidateBatch(splices) ==
    /\ \A i \in DOMAIN splices :
          splices[i].first >= 1 /\ splices[i].first <= splices[i].last
    /\ \A i, j \in DOMAIN splices : i < j => ~RangesOverlap(splices[i], splices[j])

\* sort((a, b) => b.startLine - a.startLine): by starting line, descending.
RECURSIVE InsertDescending(_, _)
InsertDescending(s, sorted) ==
    IF sorted = <<>> THEN <<s>>
    ELSE IF s.first >= Head(sorted).first THEN <<s>> \o sorted
    ELSE <<Head(sorted)>> \o InsertDescending(s, Tail(sorted))

RECURSIVE SortDescending(_)
SortDescending(splices) ==
    IF splices = <<>> THEN <<>>
    ELSE InsertDescending(Head(splices), SortDescending(Tail(splices)))

RECURSIVE ApplyInOrder(_, _)
ApplyInOrder(lines, splices) ==
    IF splices = <<>> THEN lines
    ELSE ApplyInOrder(Splice(lines, Head(splices).at, Head(splices).del,
                             Head(splices).items),
                      Tail(splices))

\* The batch applied to the original lines, highest starting line first.
ApplyBatch(lines, splices) == ApplyInOrder(lines, SortDescending(splices))

\* The read-validate-apply-write cycle the three edit functions share.
EditCycle(d, p, splices, previewFlg, verb) ==
    LET read == <<FsCall("read", p)>>
    IN  IF Node(d, p).kind # "file" THEN FsError(d, "FileNotFoundError", read, p)
        ELSE IF ~ValidateBatch(splices)
        THEN Result(d, "InvalidRangeError", read, <<"InvalidRangeError">>, <<>>)
        ELSE LET text == Join(ApplyBatch(Split(Node(d, p).text), splices))
             IN  IF previewFlg
                 THEN Result(d, "ok", read, <<"preview">> \o PathText(p), text)
                 ELSE Result([d EXCEPT ![p] = File(text)], "ok",
                             Append(read, FsCall("write", p)),
                             <<verb>> \o PathText(p), text)

\* mulchInsertLines(filePath, editlines, afterMode)
mulchInsertLines(d, p, editlines, afterMode) ==
    [EditCycle(d, p, [i \in DOMAIN editlines |-> InsertSplice(editlines[i], afterMode)],
               FALSE, "inserted") EXCEPT !.content = <<>>]

\* mulchEditLines(filePath, editlines, previewFlg)
mulchEditLines(d, p, editlines, previewFlg) ==
    EditCycle(d, p, [i \in DOMAIN editlines |-> EditSplice(editlines[i])], previewFlg, "edited")

\* mulchDeleteLines(filePath, editlines)
mulchDeleteLines(d, p, editlines) ==
    [EditCycle(d, p, [i \in DOMAIN editlines |-> DeleteSplice(editlines[i])], FALSE, "deleted")
        EXCEPT !.content = <<>>]


\* ------------------------------------------------- core operations (lib)

\* The wrapper's first two statements: the path resolved against the
\* project root, then the exclusion check on the resolved path.
readFileCore_unchecked(d, params) ==
    readTextFileWithOptions(d, Root \o params.path)

readFileCore(d, params) ==
    LET safe == resolveSafeProjectPath(params.path, params.projectPath)
    IN  IF safe.err # "none" THEN Thrown(d, safe.err)
        ELSE LET chk == checkExcludedFiles(safe.path, params.excludedPattern)
             IN  IF chk # "none" THEN Thrown(d, chk)
                 ELSE readTextFileWithOptions(d, safe.path)

\* A result with its message made project-relative.
Relative(r, projectPath) ==
    [r EXCEPT !.ret = convertToRelativePaths(r.ret, projectPath)]

writeFileCore(d, params) ==
    LET safe == resolveSafeProjectPath(params.path, params.projectPath)
    IN  IF safe.err # "none" THEN Thrown(d, safe.err)
        ELSE LET chk == checkExcludedFiles(safe.path, params.excludedPattern)
             IN  IF chk # "none" THEN Thrown(d, chk)
                 ELSE LET r == writeTextFile(d, safe.path, params.content)
                      IN  IF r.outcome # "ok" THEN r
                          ELSE Relative(r, params.projectPath)

deleteFileCore_noExclusionCheck(d, params) ==
    LET safe == resolveSafeProjectPath(params.path, params.projectPath)
    IN  IF safe.err # "none" THEN Thrown(d, safe.err)
        ELSE LET r == deleteFile(d, safe.path)
             IN  IF r.outcome # "ok" THEN r ELSE Relative(r, params.projectPath)

deleteFileCore(d, params) ==
    LET safe == resolveSafeProjectPath(params.path, params.projectPath)
    IN  IF safe.err # "none" THEN Thrown(d, safe.err)
        ELSE LET chk == checkExcludedFiles(safe.path, params.excludedPattern)
             IN  IF chk # "none" THEN Thrown(d, chk)
                 ELSE LET r == deleteFile(d, safe.path)
                      IN  IF r.outcome # "ok" THEN r
                          ELSE Relative(r, params.projectPath)

\* The move with the exclusion check made on the source only.
fileMoveOrRenameCore_dstNotChecked(d, params) ==
    LET src == resolveSafeProjectPath(params.srcPath, params.projectPath)
    IN  IF src.err # "none" THEN Thrown(d, src.err)
        ELSE LET chkSrc == checkExcludedFiles(src.path, params.excludedPattern)
        IN  IF chkSrc # "none" THEN Thrown(d, chkSrc)
        ELSE LET dst == resolveSafeProjectPath(params.distPath, params.projectPath)
        IN  IF dst.err # "none" THEN Thrown(d, dst.err)
        ELSE LET r == fileMoveOrRename(d, src.path, dst.path)
             IN  IF r.outcome # "ok" THEN r ELSE Relative(r, params.projectPath)

fileMoveOrRenameCore(d, params) ==
    LET src == resolveSafeProjectPath(params.srcPath, params.projectPath)
    IN  IF src.err # "none" THEN Thrown(d, src.err)
        ELSE LET chkSrc == checkExcludedFiles(src.path, params.excludedPattern)
        IN  IF chkSrc # "none" THEN Thrown(d, chkSrc)
        ELSE LET dst == resolveSafeProjectPath(params.distPath, params.projectPath)
        IN  IF dst.err # "none" THEN Thrown(d, dst.err)
        ELSE LET chkDst == checkExcludedFiles(dst.path, params.excludedPattern)
        IN  IF chkDst # "none" THEN Thrown(d, chkDst)
        ELSE LET r == fileMoveOrRename(d, src.path, dst.path)
             IN  IF r.outcome # "ok" THEN r ELSE Relative(r, params.projectPath)

\* One mulchInsertLines call per operation of the batch, in the order given.
RECURSIVE InsertOneByOne(_, _, _, _)
InsertOneByOne(r, p, editlines, afterMode) ==
    IF editlines = <<>> \/ r.outcome # "ok" THEN r
    ELSE LET next == mulchInsertLines(r.disk, p, <<Head(editlines)>>, afterMode)
         IN  InsertOneByOne([next EXCEPT !.fsCalls = r.fsCalls \o next.fsCalls],
                            p, Tail(editlines), afterMode)

mulchInsertLinesInFileCore_oneByOne(d, params) ==
    LET safe == resolveSafeProjectPath(params.path, params.projectPath)
    IN  IF safe.err # "none" THEN Thrown(d, safe.err)
        ELSE LET r == InsertOneByOne(Result(d, "ok", <<>>, <<>>, <<>>), safe.path,
                                     params.editlines, params.afterMode)
             IN  IF r.outcome # "ok" THEN r ELSE Relative(r, params.projectPath)

\* The wrapper with afterMode left at its default on the way to the library.
mulchInsertLinesInFileCore_ignoreAfterMode(d, params) ==
    LET safe == resolveSafeProjectPath(params.path, params.projectPath)
    IN  IF safe.err # "none" THEN Thrown(d, safe.err)
        ELSE LET chk == checkExcludedFiles(safe.path, params.excludedPattern)
             IN  IF chk # "none" THEN Thrown(d, chk)
                 ELSE LET r == mulchInsertLines(d, safe.path, params.editlines, FALSE)
                      IN  IF r.outcome # "ok" THEN r
                          ELSE Relative(r, params.projectPath)

mulchInsertLinesInFileCore(d, params) ==
    LET safe == resolveSafeProjectPath(params.path, params.projectPath)
    IN  IF safe.err # "none" THEN Thrown(d, safe.err)
        ELSE LET chk == checkExcludedFiles(safe.path, params.excludedPattern)
             IN  IF chk # "none" THEN Thrown(d, chk)
                 ELSE LET r == mulchInsertLines(d, safe.path, params.editlines,
                                                params.afterMode)
                      IN  IF r.outcome # "ok" THEN r
                          ELSE Relative(r, params.projectPath)

\* `previewFlg = true` in the destructuring: the value of an omitted flag.
previewFlgDefault_false(flag) == IF flag = "omitted" THEN FALSE ELSE flag = "true"

previewFlgDefault(flag) == IF flag = "omitted" THEN TRUE ELSE flag = "true"

\* One mulchEditLines call per operation of the batch, in the order given.
RECURSIVE EditOneByOne(_, _, _, _)
EditOneByOne(r, p, editlines, previewFlg) ==
    IF editlines = <<>> \/ r.outcome # "ok" THEN r
    ELSE LET next == mulchEditLines(r.disk, p, <<Head(editlines)>>, previewFlg)
         IN  EditOneByOne([next EXCEPT !.fsCalls = r.fsCalls \o next.fsCalls],
                          p, Tail(editlines), previewFlg)

mulchEditLinesInFileCore_oneByOne(d, params) ==
    LET safe == resolveSafeProjectPath(params.path, params.projectPath)
    IN  IF safe.err # "none" THEN Thrown(d, safe.err)
        ELSE LET r == EditOneByOne(Result(d, "ok", <<>>, <<>>, <<>>), safe.path,
                                   params.editlines,
                                   previewFlgDefault(params.previewFlg))
             IN  IF r.outcome # "ok" THEN r ELSE Relative(r, params.projectPath)

mulchEditLinesInFileCore(d, params) ==
    LET previewFlg == previewFlgDefault(params.previewFlg)
        safe == resolveSafeProjectPath(params.path, params.projectPath)
    IN  IF safe.err # "none" THEN Thrown(d, safe.err)
        ELSE LET chk == checkExcludedFiles(safe.path, params.excludedPattern)
             IN  IF chk # "none" THEN Thrown(d, chk)
                 ELSE LET r == mulchEditLines(d, safe.path, params.editlines,
                                              previewFlg)
                      IN  IF r.outcome # "ok" THEN r
                          ELSE Relative(r, params.projectPath)

\* One mulchDeleteLines call per operation of the batch, in the order given.
RECURSIVE DeleteOneByOne(_, _, _)
DeleteOneByOne(r, p, editlines) ==
    IF editlines = <<>> \/ r.outcome # "ok" THEN r
    ELSE LET next == mulchDeleteLines(r.disk, p, <<Head(editlines)>>)
         IN  DeleteOneByOne([next EXCEPT !.fsCalls = r.fsCalls \o next.fsCalls],
                            p, Tail(editlines))

mulchDeleteLinesInFileCore_oneByOne(d, params) ==
    LET safe == resolveSafeProjectPath(params.path, params.projectPath)
    IN  IF safe.err # "none" THEN Thrown(d, safe.err)
        ELSE LET chk == checkExcludedFiles(safe.path, params.excludedPattern)
             IN  IF chk # "none" THEN Thrown(d, chk)
                 ELSE LET r == DeleteOneByOne(Result(d, "ok", <<>>, <<>>, <<>>),
                                              safe.path, params.editlines)
                      IN  IF r.outcome # "ok" THEN r
                          ELSE Relative(r, params.projectPath)

mulchDeleteLinesInFileCore(d, params) ==
    LET safe == resolveSafeProjectPath(params.path, params.projectPath)
    IN  IF safe.err # "none" THEN Thrown(d, safe.err)
        ELSE LET chk == checkExcludedFiles(safe.path, params.excludedPattern)
             IN  IF chk # "none" THEN Thrown(d, chk)
                 ELSE LET r == mulchDeleteLines(d, safe.path, params.editlines)
                      IN  IF r.outcome # "ok" THEN r
                          ELSE Relative(r, params.projectPath)

findInFileCore(d, params) ==
    LET safe == resolveSafeProjectPath(params.path, params.projectPath)
    IN  IF safe.err # "none" THEN Thrown(d, safe.err)
        ELSE LET chk == checkExcludedFiles(safe.path, params.excludedPattern)
             IN  IF chk # "none" THEN Thrown(d, chk)
                 ELSE LET r == fileGrep(d, safe.path, params.pattern)
                      IN  IF r.outcome # "ok" THEN r
                          ELSE Relative(r, params.projectPath)

directoryTreeCore_callExcludeOnly(d, params) ==
    LET safe == resolveSafeProjectPath(params.path, params.projectPath)
    IN  IF safe.err # "none" THEN Thrown(d, safe.err)
        ELSE LET chk == checkExcludedFiles(safe.path, params.excludedPattern)
             IN  IF chk # "none" THEN Thrown(d, chk)
                 ELSE LET r == generateDirectoryTree(d, safe.path, params.exclude)
                      IN  IF r.outcome # "ok" THEN r
                          ELSE Relative(r, params.projectPath)

directoryTreeCore(d, params) ==
    LET safe == resolveSafeProjectPath(params.path, params.projectPath)
    IN  IF safe.err # "none" THEN Thrown(d, safe.err)
        ELSE LET chk == checkExcludedFiles(safe.path, params.excludedPattern)
             IN  IF chk # "none" THEN Thrown(d, chk)
                 ELSE LET mergeExcluded == params.excludedPattern \o params.exclude
                          r == generateDirectoryTree(d, safe.path, mergeExcluded)
                      IN  IF r.outcome # "ok" THEN r
                          ELSE Relative(r, params.projectPath)

\* createDirectoryCore and removeDirectoryCore return the message as it is.
createDirectoryCore(d, params) ==
    LET safe == resolveSafeProjectPath(params.path, params.projectPath)
    IN  IF safe.err # "none" THEN Thrown(d, safe.err)
        ELSE LET chk == checkExcludedFiles(safe.path, params.excludedPattern)
             IN  IF chk # "none" THEN Thrown(d, chk)
                 ELSE createDirectory(d, safe.path)

removeDirectoryCore(d, params) ==
    LET safe == resolveSafeProjectPath(params.path, params.projectPath)
    IN  IF safe.err # "none" THEN Thrown(d, safe.err)
        ELSE LET chk == checkExcludedFiles(safe.path, params.excludedPattern)
             IN  IF chk # "none" THEN Thrown(d, chk)
                 ELSE removeDirectory(d, safe.path)

listFilesCore(d, params) ==
    LET safe == resolveSafeProjectPath(params.path, params.projectPath)
    IN  IF safe.err # "none" THEN Thrown(d, safe.err)
        ELSE LET chk == checkExcludedFiles(safe.path, params.excludedPattern)
             IN  IF chk # "none" THEN Thrown(d, chk)
                 ELSE LET l == listFiles(d, safe.path)
                          items == SelectSeq(l.items,
                                     LAMBDA q : ~isExcludedFiles(q, params.excludedPattern))
                      IN  IF l.res.outcome # "ok" THEN l.res
                          ELSE [l.res EXCEPT !.ret =
                                  convertToRelativePaths(FlattenPaths(items),
                                                         params.projectPath)]


\* `options = {}`: the options of a call that gives none.
DefaultOptions == GrepOptions(0, 0, <<>>)

findInFileCoreResult_noOptions(d, params) ==
    LET safe == resolveSafeProjectPath(params.path, params.projectPath)
    IN  IF safe.err # "none" THEN ScanThrown(d, safe.err)
        ELSE LET chk == checkExcludedFiles(safe.path, params.excludedPattern)
             IN  IF chk # "none" THEN ScanThrown(d, chk)
                 ELSE fileGrepWithOptions(d, safe.path, params.pattern, DefaultOptions)

\* findInFileCore with its options: findResult, and the text returned.
findInFileCoreResult(d, params) ==
    LET safe == resolveSafeProjectPath(params.path, params.projectPath)
    IN  IF safe.err # "none" THEN ScanThrown(d, safe.err)
        ELSE LET chk == checkExcludedFiles(safe.path, params.excludedPattern)
             IN  IF chk # "none" THEN ScanThrown(d, chk)
                 ELSE LET r == fileGrepWithOptions(d, safe.path, params.pattern,
                                                   params.options)
                      IN  IF r.outcome # "ok" THEN r
                          ELSE [r EXCEPT !.ret =
                                  convertToRelativePaths(MatchesText(r.matches),
                                                         params.projectPath)]

projectGrepCore_noOptions(d, params) ==
    LET safe == resolveSafeProjectPath(<<>>, params.projectPath)
        r == projectGrep(d, safe.path, params.pattern, DefaultOptions, params.enum)
    IN  IF safe.err # "none" THEN ScanThrown(d, safe.err) ELSE r

\* projectGrepCore: the project is searched from its root, then the results
\* in excluded files are filtered out.
projectGrepCore(d, params) ==
    LET safe == resolveSafeProjectPath(<<>>, params.projectPath)
    IN  IF safe.err # "none" THEN ScanThrown(d, safe.err)
        ELSE LET r == projectGrep(d, safe.path, params.pattern, params.options,
                                  params.enum)
                 results == SelectSeq(r.matches,
                               LAMBDA item :
                                   ~isExcludedFiles(item.filePath, params.excludedPattern))
             IN  IF r.outcome # "ok" THEN r
                 ELSE [r EXCEPT
                          !.matches = results,
                          !.ret = convertToRelativePaths(MatchesText(results),
                                                         params.projectPath)]


\* ------------------------------------------------------ the Core class

\* Core holds projectPath and excludedPattern and passes them to each call.
CoreParams(fields) ==
    fields @@ [projectPath |-> Root, excludedPattern |-> excludedPattern]

CoreReadFile(d, path) == readFileCore(d, CoreParams([path |-> path]))

CoreWriteFile(d, path, content) ==
    writeFileCore(d, CoreParams([path |-> path, content |-> content]))

CoreDeleteFile(d, path) == deleteFileCore(d, CoreParams([path |-> path]))

CoreFileMoveOrRename(d, srcPath, distPath) ==
    fileMoveOrRenameCore(d, CoreParams([srcPath |-> srcPath, distPath |-> distPath]))

CoreMulchInsertLinesInFile(d, path, editlines, afterMode) ==
    mulchInsertLinesInFileCore(d,
        CoreParams([path |-> path, editlines |-> editlines, afterMode |-> afterMode]))

\* `previewFlg: boolean = true`: the method's own default.
CorePreviewDefault(flag) == IF flag = "omitted" THEN "true" ELSE flag

CoreMulchEditLinesInFile(d, path, editlines, previewFlg) ==
    mulchEditLinesInFileCore(d,
        CoreParams([path |-> path, editlines |-> editlines,
                    previewFlg |-> CorePreviewDefault(previewFlg)]))

CoreMulchDeleteLinesInFile(d, path, editlines) ==
    mulchDeleteLinesInFileCore(d, CoreParams([path |-> path, editlines |-> editlines]))

CoreFindInFile(d, path, pattern) ==
    findInFileCore(d, CoreParams([path |-> path, pattern |-> pattern]))

CoreDirectoryTree(d, path, exclude) ==
    directoryTreeCore(d, CoreParams([path |-> path, exclude |-> exclude]))

CoreCreateDirectory(d, path) == createDirectoryCore(d, CoreParams([path |-> path]))

CoreRemoveDirectory(d, path) == removeDirectoryCore(d, CoreParams([path |-> path]))

CoreListFiles(d, path) == listFilesCore(d, CoreParams([path |-> path]))

CoreFindInFileResult(d, path, pattern, options) ==
    findInFileCoreResult(d, CoreParams([path |-> path, pattern |-> pattern,
                                       options |-> options]))

CoreProjectGrep(d, pattern, options, enum) ==
    projectGrepCore(d, CoreParams([pattern |-> pattern, options |-> options,
                                   enum |-> enum]))


\* ------------------------------------------------ the adapter's edit tool

\* z.number().min(1) on startLine and endLine of every operation.
ZodLinesOk(editlines) ==
    \A i \in DOMAIN editlines : editlines[i].startLine >= 1 /\ editlines[i].endLine >= 1

\* z.boolean().default(true) on preview.
ZodPreviewDefault(flag) == IF flag = "omitted" THEN "true" ELSE flag

ToolEditLinesInFile(d, filePath, editlines, preview) ==
    IF ~ZodLinesOk(editlines) THEN Thrown(d, "InvalidArguments")
    ELSE CoreMulchEditLinesInFile(d, filePath, editlines, ZodPreviewDefault(preview))

\* The three ways an edit request comes in: the tool, the class, the function.
EditEntry(entry, d, path, editlines, flag) ==
    CASE entry = "tool" -> ToolEditLinesInFile(d, path, editlines, flag)
      [] entry = "class" -> CoreMulchEditLinesInFile(d, path, editlines, flag)
      [] OTHER -> mulchEditLinesInFileCore(d,
                    CoreParams([path |-> path, editlines |-> editlines,
                                previewFlg |-> flag]))

\* ----------------------------------------------------------------- actions

NotLoaded == 0 - 1

\* No tool request handled yet, no log file, the server's logs.ts not loaded.
NoLogging ==
    /\ handled = <<>>
    /\ logFiles = {}
    /\ today = 0
    /\ loadedOn = NotLoaded

NoCall ==
    [op |-> "none", entry |-> "none", path |-> <<>>, dst |-> <<>>, batch |-> <<>>,
     flag |-> "none", before |-> <<>>, outcome |-> "none", fsCalls |-> <<>>,
     ret |-> <<>>, content |-> <<>>]

Called(op, entry, path, dst, batch, flag, r) ==
    [op |-> op, entry |-> entry, path |-> path, dst |-> dst, batch |-> batch,
     flag |-> flag, before |-> disk, outcome |-> r.outcome, fsCalls |-> r.fsCalls,
     ret |-> r.ret, content |-> r.content]

Finish(c, r) ==
    /\ pc = "idle"
    /\ served < MaxCalls
    /\ pc' = "done"
    /\ disk' = r.disk
    /\ call' = c
    /\ UNCHANGED <<excludedPattern, served, procs, tmp, observed, config, log,
                   handled, logFiles, today, loadedOn>>

\* Edits are offered while every file is at most MaxLines long.
SmallFiles == \A p \in DOMAIN disk : Len(Split(disk[p].text)) <= MaxLines

WriteContents == {<<"X">>}

SampleEdits ==
    { <<[startLine |-> 1, endLine |-> 1, content |-> <<"X">>]>>,
      <<[startLine |-> 2, endLine |-> 1, content |-> <<"X">>]>> }

SampleInserts == { <<[lineNumber |-> 1, content |-> <<"X">>]>> }

SampleDeletes ==
    { <<[startLine |-> 1, endLine |-> 1]>>,
      <<[startLine |-> 1, endLine |-> 2], [startLine |-> 2, endLine |-> 2]>> }

PreviewFlags == {"true", "false", "omitted"}
Entries == {"tool", "class", "core"}

ReadFile ==
    \E path \in InputPaths :
        LET r == CoreReadFile(disk, path)
        IN  Finish(Called("readFile", "class", path, <<>>, <<>>, "none", r), r)

WriteFile ==
    \E path \in InputPaths, content \in WriteContents :
        LET r == CoreWriteFile(disk, path, content)
        IN  Finish(Called("writeFile", "class", path, <<>>, <<>>, "none", r), r)

DeleteFile ==
    \E path \in InputPaths :
        LET r == CoreDeleteFile(disk, path)
        IN  Finish(Called("deleteFile", "class", path, <<>>, <<>>, "none", r), r)

FileMoveOrRename ==
    \E src \in InputPaths, dst \in InputPaths :
        LET r == CoreFileMoveOrRename(disk, src, dst)
        IN  Finish(Called("fileMoveOrRename", "class", src, dst, <<>>, "none", r), r)

InsertLines ==
    /\ SmallFiles
    /\ \E path \in InputPaths, editlines \in SampleInserts :
        LET r == CoreMulchInsertLinesInFile(disk, path, editlines, FALSE)
        IN  Finish(Called("insertLines", "class", path, <<>>, editlines, "before", r), r)

EditLines ==
    /\ SmallFiles
    /\ \E path \in InputPaths, editlines \in SampleEdits,
          flag \in PreviewFlags, entry \in Entries :
        LET r == EditEntry(entry, disk, path, editlines, flag)
        IN  Finish(Called("editLines", entry, path, <<>>, editlines, flag, r), r)

DeleteLines ==
    /\ SmallFiles
    /\ \E path \in InputPaths, editlines \in SampleDeletes :
        LET r == CoreMulchDeleteLinesInFile(disk, path, editlines)
        IN  Finish(Called("deleteLines", "class", path, <<>>, editlines, "none", r), r)

FindInFile ==
    \E path \in InputPaths :
        LET r == CoreFindInFile(disk, path, "a")
        IN  Finish(Called("findInFile", "class", path, <<>>, <<>>, "none", r), r)

DirectoryTree ==
    \E path \in InputPaths :
        LET r == CoreDirectoryTree(disk, path, <<>>)
        IN  Finish(Called("directoryTree", "class", path, <<>>, <<>>, "none", r), r)

CreateDirectory ==
    \E path \in InputPaths :
        LET r == CoreCreateDirectory(disk, path)
        IN  Finish(Called("createDirectory", "class", path, <<>>, <<>>, "none", r), r)

RemoveDirectory ==
    \E path \in InputPaths :
        LET r == CoreRemoveDirectory(disk, path)
        IN  Finish(Called("removeDirectory", "class", path, <<>>, <<>>, "none", r), r)

ListFiles ==
    \E path \in InputPaths :
        LET r == CoreListFiles(disk, path)
        IN  Finish(Called("listFiles", "class", path, <<>>, <<>>, "none", r), r)

\* The adapter returns the response; the next request can be handled.
Respond ==
    /\ pc = "done"
    /\ pc' = "idle"
    /\ call' = NoCall
    /\ served' = served + 1
    /\ UNCHANGED <<disk, excludedPattern, procs, tmp, observed, config, log,
                   handled, logFiles, today, loadedOn>>

NoProcs == <<>>

Init ==
    /\ disk = InitDisk
    /\ config \in Configs
    /\ excludedPattern = allExcludedFiles(config)
    /\ log = <<>>
    /\ NoLogging
    /\ pc = "idle"
    /\ call = NoCall
    /\ served = 0
    /\ procs = NoProcs
    /\ tmp = <<>>
    /\ observed = <<>>

Next ==
    \/ ReadFile
    \/ WriteFile
    \/ DeleteFile
    \/ FileMoveOrRename
    \/ InsertLines
    \/ EditLines
    \/ DeleteLines
    \/ FindInFile
    \/ DirectoryTree
    \/ CreateDirectory
    \/ RemoveDirectory
    \/ ListFiles
    \/ Respond

Spec == Init /\ [][Next]_vars


\* ------------------------------------------- edit batches, exhaustively

\* The file the batches are made against, and the documents it starts as:
\* lines all different, so that a misplaced or lost line shows.
EditTarget == <<"a">>
EditFile == Root \o EditTarget
LineNames == << <<"a">>, <<"b">>, <<"c">>, <<"d">>, <<"e">> >>
EditDocs == {SubSeq(LineNames, 1, n) : n \in 1..MaxLines}

LineNos == 0..MaxLines
EditContents == {<<"X">>, <<"X", NL, "Y">>}
EditOps == [startLine : LineNos, endLine : LineNos, content : EditContents]
DeleteOps == [startLine : LineNos, endLine : LineNos]
InsertOps == [lineNumber : LineNos, content : EditContents]

EditBatch ==
    \E editlines \in SeqsUpTo(EditOps, MaxBatch), flag \in {"true", "false"} :
        LET r == mulchEditLinesInFileCore(disk,
                    CoreParams([path |-> EditTarget, editlines |-> editlines,
                                previewFlg |-> flag]))
        IN  Finish(Called("editLines", "core", EditTarget, <<>>, editlines, flag, r), r)

InsertBatch ==
    \E editlines \in SeqsUpTo(InsertOps, MaxBatch), afterMode \in BOOLEAN :
        LET r == mulchInsertLinesInFileCore(disk,
                    CoreParams([path |-> EditTarget, editlines |-> editlines,
                                afterMode |-> afterMode]))
        IN  Finish(Called("insertLines", "core", EditTarget, <<>>, editlines,
                          IF afterMode THEN "after" ELSE "before", r), r)

DeleteBatch ==
    \E editlines \in SeqsUpTo(DeleteOps, MaxBatch) :
        LET r == mulchDeleteLinesInFileCore(disk,
                    CoreParams([path |-> EditTarget, editlines |-> editlines]))
        IN  Finish(Called("deleteLines", "core", EditTarget, <<>>, editlines, "none", r), r)

InitEdit ==
    /\ disk \in {[InitDisk EXCEPT ![EditFile] = File(Join(doc))] : doc \in EditDocs}
    /\ config = Config(Missing, Listed(<< <<"x", "**">> >>), Missing)
    /\ excludedPattern = allExcludedFiles(config)
    /\ log = <<>>
    /\ NoLogging
    /\ pc = "idle"
    /\ call = NoCall
    /\ served = 0
    /\ procs = NoProcs
    /\ tmp = <<>>
    /\ observed = <<>>

NextEdit ==
    \/ EditBatch
    \/ InsertBatch
    \/ DeleteBatch

SpecEdit == InitEdit /\ [][NextEdit]_vars


\* --------------------------------------- requests running concurrently

\* Two edit requests and one whole-file write, all on EditFile, and reads of
\* it. Each request advances from one await to the next.
Editors == {"e1", "e2"}
Writers == Editors \cup {"w"}

ConcRequests ==
    { <<EditSplice([startLine |-> 1, endLine |-> 1, content |-> <<"X">>])>>,
      <<InsertSplice([lineNumber |-> 2, content |-> <<"Y">>], FALSE)>>,
      <<DeleteSplice([startLine |-> 2, endLine |-> 2])>> }

Request(splices, out) ==
    [pc |-> "start", splices |-> splices, snapshot |-> <<>>, out |-> out]

\* The first part of a content written to a file that is being filled.
FirstChunk(text) == SubSeq(text, 1, Len(text) \div 2)

\* A write in progress fills a temporary file beside the target.
writeTextFileChunk_inPlace(d, t, p, text) ==
    [disk |-> [d EXCEPT ![EditFile] = File(text)], tmp |-> t]

writeTextFileChunk(d, t, p, text) ==
    [disk |-> d, tmp |-> [t EXCEPT ![p] = File(text)]]

\* The finished temporary file is renamed over the target.
renameOverTarget(d, t, p) ==
    [disk |-> IF t[p].kind = "file" THEN [d EXCEPT ![EditFile] = t[p]] ELSE d,
     tmp |-> [t EXCEPT ![p] = Absent]]

ConcFrame ==
    UNCHANGED <<excludedPattern, pc, call, served, config, log,
                handled, logFiles, today, loadedOn>>

\* An edit request reads the file; the new content follows from what it read.
EditRead ==
    \E p \in Editors :
        LET safe == resolveSafeProjectPath(EditTarget, Root)
            r == readTextFileWithOptions(disk, safe.path)
        IN  /\ procs[p].pc = "start"
            /\ safe.err = "none"
            /\ checkExcludedFiles(safe.path, excludedPattern) = "none"
            /\ r.outcome = "ok"
            /\ ValidateBatch(procs[p].splices)
            /\ procs' = [procs EXCEPT
                   ![p].pc = "read",
                   ![p].snapshot = r.content,
                   ![p].out = Join(ApplyBatch(Split(r.content), procs[p].splices))]
            /\ UNCHANGED <<disk, tmp, observed>>
            /\ ConcFrame

WriteStart ==
    \E p \in Writers :
        LET w == writeTextFileChunk(disk, tmp, p, FirstChunk(procs[p].out))
        IN  /\ procs[p].pc = (IF p \in Editors THEN "read" ELSE "start")
            /\ procs' = [procs EXCEPT ![p].pc = "writing"]
            /\ disk' = w.disk
            /\ tmp' = w.tmp
            /\ UNCHANGED observed
            /\ ConcFrame

WriteRest ==
    \E p \in Writers :
        LET w == writeTextFileChunk(disk, tmp, p, procs[p].out)
        IN  /\ procs[p].pc = "writing"
            /\ procs' = [procs EXCEPT ![p].pc = "written"]
            /\ disk' = w.disk
            /\ tmp' = w.tmp
            /\ UNCHANGED observed
            /\ ConcFrame

Rename ==
    \E p \in Writers :
        LET w == renameOverTarget(disk, tmp, p)
        IN  /\ procs[p].pc = "written"
            /\ procs' = [procs EXCEPT ![p].pc = "done"]
            /\ disk' = w.disk
            /\ tmp' = w.tmp
            /\ observed' = [observed EXCEPT !.last = p]
            /\ ConcFrame

\* A read of the file made while requests are in flight.
ConcRead ==
    LET r == readTextFileWithOptions(disk, EditFile)
    IN  /\ \E p \in Writers : procs[p].pc # "done"
        /\ r.outcome = "ok"
        /\ observed' = [observed EXCEPT !.reads = @ \cup {r.content}]
        /\ UNCHANGED <<disk, procs, tmp>>
        /\ ConcFrame

InitConc ==
    /\ disk = InitDisk
    /\ config = Config(Missing, Listed(<< <<"x", "**">> >>), Missing)
    /\ excludedPattern = allExcludedFiles(config)
    /\ log = <<>>
    /\ NoLogging
    /\ pc = "idle"
    /\ call = NoCall
    /\ served = 0
    /\ \E s1 \in ConcRequests, s2 \in ConcRequests :
          procs = [p \in Writers |->
                      IF p = "e1" THEN Request(s1, <<>>)
                      ELSE IF p = "e2" THEN Request(s2, <<>>)
                      ELSE Request(<<>>, <<"W">>)]
    /\ tmp = [p \in Writers |-> Absent]
    /\ observed = [reads |-> {}, last |-> "none"]

NextConc ==
    \/ EditRead
    \/ WriteStart
    \/ WriteRest
    \/ Rename
    \/ ConcRead

SpecConc == InitConc /\ [][NextConc]_vars


\* ------------------------------------------ searches and trees, exhaustively

MaxContext == 2
MaxResults == 2

\* The project the scans run on: the file a with every small content, the
\* directory x with two files, and a link to a directory, an ancestor or not.
ScanDocs == {Join(l) : l \in SeqsUpTo({<<"a">>, <<"b">>}, MaxLines) \ {<<>>}}

ScanDisk(doc, linkTarget) ==
    [p \in FsPaths |->
        CASE p = <<>> -> Dir
          [] p = Root -> Dir
          [] p = <<"r", "a">> -> File(doc)
          [] p = <<"r", "x">> -> Dir
          [] p = <<"r", "x", "a">> -> File(<<"b", NL, "a", NL, "a">>)
          [] p = <<"r", "x", "x">> -> File(<<"a">>)
          [] p = LinkPath -> [kind |-> "link", text |-> linkTarget]
          [] OTHER -> File(<<"o">>)]

ScanConfigs ==
    Configs \cup { Config(Listed(<< <<"x">> >>), Missing, Missing),
                   Config(Missing, Listed(<< <<"a">> >>), Missing) }

\* The orders a directory's names can be enumerated in.
Enums == {e \in [DOMAIN SegOrder -> {SegOrder[i] : i \in DOMAIN SegOrder}] :
             \A i, j \in DOMAIN SegOrder : i # j => e[i] # e[j]}

ScanExcludes == {<<>>, << <<"a">> >>}
TreeExcludes == {<<>>, << <<"x">> >>, << <<"*", "a">> >>}

ScanCalled(op, path, options, enum, r) ==
    Called(op, "class", path, <<>>, <<>>, "none", r)
        @@ [matches |-> r.matches, scanned |-> r.scanned,
            options |-> options, enum |-> enum]

ProjectGrep ==
    \E maxResults \in 0..MaxResults, exclude \in ScanExcludes, enum \in Enums :
        LET options == GrepOptions(0, maxResults, exclude)
            r == CoreProjectGrep(disk, "a", options, enum)
        IN  Finish(ScanCalled("projectGrep", <<>>, options, enum, r), r)

FindInFileWithOptions ==
    \E path \in {<<"a">>, <<"x", "a">>, <<"x">>},
       context \in 0..MaxContext, maxResults \in 0..MaxResults :
        LET options == GrepOptions(context, maxResults, <<>>)
            r == CoreFindInFileResult(disk, path, "a", options)
        IN  Finish(ScanCalled("findInFile", path, options, SegOrder, r), r)

DirectoryTreeWithExclude ==
    \E path \in {<<>>, <<"x">>}, exclude \in TreeExcludes :
        LET r == CoreDirectoryTree(disk, path, exclude)
        IN  Finish(Called("directoryTree", "class", path, <<>>, exclude, "none", r), r)

InitScan ==
    /\ disk \in {ScanDisk(doc, target) : doc \in ScanDocs, target \in {Root, <<"r", "x">>}}
    /\ config \in ScanConfigs
    /\ excludedPattern = allExcludedFiles(config)
    /\ log = <<>>
    /\ NoLogging
    /\ pc = "idle"
    /\ call = NoCall
    /\ served = 0
    /\ procs = NoProcs
    /\ tmp = <<>>
    /\ observed = <<>>

NextScan ==
    \/ ProjectGrep
    \/ FindInFileWithOptions
    \/ DirectoryTreeWithExclude

SpecScan == InitScan /\ [][NextScan]_vars


\* ------------------------------------------- the adapter's tool handlers

\* The sentence a persisted edit closes with: line numbers have shifted,
\* read the file again before using the tool on it once more.
RereadNotice == "reread-shifted-lines"

\* The sentence a previewed edit closes with: run again with preview: false
\* to save.
RerunNotice == "rerun-preview-false"

createMpcResponse(text) == [isError |-> FALSE, text |-> text]

createMpcErrorResponse(message, code) ==
    [isError |-> TRUE, text |-> <<code>> \o message]

\* One line of the request log.
requestLog(status, message) == [status |-> status, message |-> message]

\* A handler's try block returning its response.
Answered(r, text) ==
    [r |-> r, response |-> createMpcResponse(text), logged |-> <<>>]

\* The catch block: the error logged, then returned as an error response.
Caught(r) ==
    [r |-> r, response |-> createMpcErrorResponse(r.ret, "500"),
     logged |-> <<requestLog(500, r.ret)>>]

\* The catch block of fileReed: the error returned as an error response.
CaughtFileReed(r) ==
    [r |-> r, response |-> createMpcErrorResponse(r.ret, "500"), logged |-> <<>>]

\* exclude.split(','): the tool's exclude string as a list of patterns.
SplitComma(exclude) == IF exclude = "" THEN << <<>> >> ELSE << <<exclude>> >>

Tool_directoryTree(d, path, exclude) ==
    LET r == CoreDirectoryTree(d, path, SplitComma(exclude))
    IN  IF r.outcome = "ok" THEN Answered(r, r.ret) ELSE Caught(r)

Tool_createDirectory(d, filePath) ==
    LET r == CoreCreateDirectory(d, filePath)
    IN  IF r.outcome = "ok" THEN Answered(r, r.ret) ELSE Caught(r)

Tool_removeDirectory(d, filePath) ==
    LET r == CoreRemoveDirectory(d, filePath)
    IN  IF r.outcome = "ok" THEN Answered(r, r.ret) ELSE Caught(r)

Tool_fileList(d, path) ==
    LET r == CoreListFiles(d, path)
    IN  IF r.outcome = "ok" THEN Answered(r, r.ret) ELSE Caught(r)

Tool_findInFile(d, filePath, pattern, options) ==
    LET r == CoreFindInFileResult(d, filePath, pattern, options)
    IN  IF r.outcome = "ok" THEN Answered(r, r.ret) ELSE Caught(r)

Tool_projectGrep(d, pattern, options) ==
    LET r == CoreProjectGrep(d, pattern, options, SegOrder)
    IN  IF r.outcome = "ok" THEN Answered(r, r.ret) ELSE Caught(r)

Tool_fileReed(d, filePath) ==
    LET r == CoreReadFile(d, filePath)
    IN  IF r.outcome = "ok" THEN Answered(r, r.content) ELSE CaughtFileReed(r)

Tool_fileWrite(d, filePath, content) ==
    LET r == CoreWriteFile(d, filePath, content)
    IN  IF r.outcome = "ok" THEN Answered(r, r.ret) ELSE Caught(r)

Tool_fileDelete(d, filePath) ==
    LET r == CoreDeleteFile(d, filePath)
    IN  IF r.outcome = "ok" THEN Answered(r, r.ret) ELSE Caught(r)

Tool_fileMoveOrRename(d, srcPath, distPath) ==
    LET r == CoreFileMoveOrRename(d, srcPath, distPath)
    IN  IF r.outcome = "ok" THEN Answered(r, r.ret) ELSE Caught(r)

Tool_insertLinesInFile(d, filePath, editlines, afterMode) ==
    LET r == CoreMulchInsertLinesInFile(d, filePath, editlines, afterMode)
    IN  IF r.outcome = "ok" THEN Answered(r, Append(r.ret, RereadNotice))
        ELSE Caught(r)

\* The edit tool's closing sentence with the re-read sentence on every
\* branch.
editNotice_alwaysReread(preview) == RereadNotice

\* const msg = preview ? ... : ...
editNotice(preview) == IF preview = "true" THEN RerunNotice ELSE RereadNotice

\* arrayToTextContent([`${message} ${msg}`, content])
arrayToTextContent(first, second) == first \o <<NL>> \o second

Tool_editLinesInFile(d, filePath, editlines, preview) ==
    LET r == CoreMulchEditLinesInFile(d, filePath, editlines, preview)
    IN  IF r.outcome = "ok"
        THEN Answered(r, arrayToTextContent(Append(r.ret, editNotice(preview)),
                                            r.content))
        ELSE Caught(r)

Tool_deleteLinesInFile(d, filePath, editlines) ==
    LET r == CoreMulchDeleteLinesInFile(d, filePath, editlines)
    IN  IF r.outcome = "ok" THEN Answered(r, Append(r.ret, RereadNotice))
        ELSE Caught(r)

\* ---- script tools

\* How the command of a script run can end.
ScriptExits == {"ok", "failed"}

\* runScript(name, scriptCmd, projectPath): the command run in the project
\* root; its output returned, or its failure thrown.
runScript(d, name, scriptCmd, projectPath, exit) ==
    LET exec == <<FsCall("exec", scriptCmd)>>
    IN  IF exit = "ok" THEN Result(d, "ok", exec, <<"output", name>>, <<>>)
        ELSE Result(d, "ScriptError", exec, <<"ScriptError", name>>, <<>>)

runScriptCore(d, params, exit) ==
    runScript(d, params.name, params.scriptCmd, params.projectPath, exit)

CoreRunScript(d, name, scriptCmd, exit) ==
    runScriptCore(d, [name |-> name, scriptCmd |-> scriptCmd, projectPath |-> Root],
                  exit)

Script(name, scriptCmd) == [name |-> name, scriptCmd |-> scriptCmd]

\* Object.keys(currentProject.scripts), when the project has scripts.
ScriptNames(cfg) ==
    IF cfg.project.scripts.set
    THEN {cfg.project.scripts.items[i].name : i \in DOMAIN cfg.project.scripts.items}
    ELSE {}

\* The command a script tool runs is its own name.
scriptCmdOf_name(cfg, name) == <<name>>

\* const scriptCmd = currentProject.scripts[name]
scriptCmdOf(cfg, name) ==
    LET items == cfg.project.scripts.items
    IN  items[CHOOSE i \in DOMAIN items : items[i].name = name].scriptCmd

\* `script_${name}`
ScriptToolName(name) == <<"script_", name>>

FixedTools ==
    { <<"directoryTree">>, <<"createDirectory">>, <<"removeDirectory">>,
      <<"fileList">>, <<"findInFile">>, <<"projectGrep">>, <<"fileReed">>,
      <<"fileWrite">>, <<"fileDelete">>, <<"fileMoveOrRename">>,
      <<"insertLinesInFile">>, <<"editLinesInFile">>, <<"deleteLinesInFile">> }

\* Every server.tool(...) registration of the adapter.
RegisteredTools(cfg) == FixedTools \cup {ScriptToolName(n) : n \in ScriptNames(cfg)}

\* The parameters a registered tool takes from its caller.
ToolSchema(tool) ==
    CASE tool = <<"directoryTree">> -> {"path", "exclude", "requestId"}
      [] tool \in {<<"createDirectory">>, <<"removeDirectory">>,
                   <<"fileDelete">>} -> {"filePath", "requestId"}
      [] tool = <<"fileList">> -> {"path", "filter", "requestId"}
      [] tool = <<"findInFile">> -> {"filePath", "pattern", "options", "requestId"}
      [] tool = <<"projectGrep">> -> {"pattern", "options", "requestId"}
      [] tool = <<"fileReed">> ->
             {"filePath", "showLineNumbers", "startLine", "endLine", "maxLines",
              "requestId"}
      [] tool = <<"fileWrite">> -> {"filePath", "content", "requestId"}
      [] tool = <<"fileMoveOrRename">> -> {"srcPath", "distPath", "requestId"}
      [] tool = <<"insertLinesInFile">> ->
             {"filePath", "editlines", "afterMode", "requestId"}
      [] tool = <<"editLinesInFile">> ->
             {"filePath", "editlines", "preview", "requestId"}
      [] tool = <<"deleteLinesInFile">> -> {"filePath", "editlines", "requestId"}
      [] OTHER -> {"requestId"}

Tool_script(d, cfg, name, exit) ==
    LET scriptCmd == scriptCmdOf(cfg, name)
        started == <<requestLog(200, <<"script-start", name>>)>>
        r == CoreRunScript(d, name, scriptCmd, exit)
        h == IF r.outcome = "ok" THEN Answered(r, r.ret) ELSE Caught(r)
    IN  [h EXCEPT !.logged = started \o h.logged]

\* ---- the server handling tool calls

ToolPaths == { <<"a">>, <<"x", "a">>, <<"..">>, <<"x">> }

ToolExcludeStrings == {"", "x"}

ScriptSets ==
    { Missing,
      Listed(<< >>),
      Listed(<< Script("test", <<"npm", "test">>) >>),
      Listed(<< Script("test", <<"npm", "test">>), Script("lint", <<"eslint">>) >>) }

ToolConfigs ==
    { Config(Missing, Listed(<< <<"x", "**">> >>), scripts) : scripts \in ScriptSets }

\* The handler a tool name is registered with.
ToolOp(tool) == IF Len(tool) = 1 THEN tool[1] ELSE "script"

ToolCalled(tool, path, batch, flag, h) ==
    Called(ToolOp(tool), "tool", path, <<>>, batch, flag, h.r)
        @@ [tool |-> tool, response |-> h.response, logBefore |-> log]

\* ---- request ids

\* The n-th id generateRequestId hands out: no two calls give the same id.
generateRequestId(n) == <<"generated", n>>

\* requestId left out of the request.
NoRequestId == <<>>

RequestIds == {NoRequestId, <<"caller", 0>>}

\* The tools whose schema reads z.string().default(generateRequestId()), in
\* the order they are registered: the default is computed at registration.
DefaultIdTools ==
    << <<"fileReed">>, <<"insertLinesInFile">>, <<"editLinesInFile">>,
       <<"deleteLinesInFile">> >>

RegistrationId(tool) ==
    generateRequestId(CHOOSE i \in DOMAIN DefaultIdTools : DefaultIdTools[i] = tool)

\* The requestId the handler receives from the schema: .default(...) fills
\* an omitted one in, .optional() leaves it out.
ZodRequestId(tool, requestId) ==
    IF requestId # NoRequestId THEN requestId
    ELSE IF \E i \in DOMAIN DefaultIdTools : DefaultIdTools[i] = tool
         THEN RegistrationId(tool)
         ELSE NoRequestId

\* const finalRequestId = requestId || generateRequestId()
finalRequestId(tool, requestId, generated) ==
    LET given == ZodRequestId(tool, requestId)
    IN  IF given # NoRequestId THEN given ELSE generateRequestId(generated + 1)

\* Ids generated before the request now handled: one per default at
\* registration, at most one per request since.
GeneratedSoFar == Len(DefaultIdTools) + Len(handled)

ToolFinish(c, h) ==
    /\ pc = "idle"
    /\ served < MaxCalls
    /\ c.tool \in RegisteredTools(config)
    /\ pc' = "done"
    /\ disk' = h.r.disk
    /\ log' = log \o h.logged
    /\ \E requestId \in RequestIds :
          LET id == finalRequestId(c.tool, requestId, GeneratedSoFar)
          IN  /\ call' = c @@ [requestId |-> requestId, finalRequestId |-> id]
              /\ handled' = Append(handled, id)
    /\ UNCHANGED <<excludedPattern, served, procs, tmp, observed, config,
                   logFiles, today, loadedOn>>

CallDirectoryTree ==
    \E path \in ToolPaths, exclude \in ToolExcludeStrings :
        LET h == Tool_directoryTree(disk, path, exclude)
        IN  ToolFinish(ToolCalled(<<"directoryTree">>, path, SplitComma(exclude),
                                  "none", h), h)

CallCreateDirectory ==
    \E path \in ToolPaths :
        LET h == Tool_createDirectory(disk, path)
        IN  ToolFinish(ToolCalled(<<"createDirectory">>, path, <<>>, "none", h), h)

CallRemoveDirectory ==
    \E path \in ToolPaths :
        LET h == Tool_removeDirectory(disk, path)
        IN  ToolFinish(ToolCalled(<<"removeDirectory">>, path, <<>>, "none", h), h)

CallFileList ==
    \E path \in ToolPaths :
        LET h == Tool_fileList(disk, path)
        IN  ToolFinish(ToolCalled(<<"fileList">>, path, <<>>, "none", h), h)

CallFindInFile ==
    \E path \in ToolPaths :
        LET h == Tool_findInFile(disk, path, "a", GrepOptions(1, 0, <<>>))
        IN  ToolFinish(ToolCalled(<<"findInFile">>, path, <<>>, "none", h), h)

CallProjectGrep ==
    LET h == Tool_projectGrep(disk, "a", GrepOptions(0, 0, <<>>))
    IN  ToolFinish(ToolCalled(<<"projectGrep">>, <<>>, <<>>, "none", h), h)

CallFileReed ==
    \E path \in ToolPaths :
        LET h == Tool_fileReed(disk, path)
        IN  ToolFinish(ToolCalled(<<"fileReed">>, path, <<>>, "none", h), h)

CallFileWrite ==
    \E path \in ToolPaths, content \in WriteContents :
        LET h == Tool_fileWrite(disk, path, content)
        IN  ToolFinish(ToolCalled(<<"fileWrite">>, path, <<>>, "none", h), h)

CallFileDelete ==
    \E path \in ToolPaths :
        LET h == Tool_fileDelete(disk, path)
        IN  ToolFinish(ToolCalled(<<"fileDelete">>, path, <<>>, "none", h), h)

CallFileMoveOrRename ==
    \E src \in ToolPaths, dst \in ToolPaths :
        LET h == Tool_fileMoveOrRename(disk, src, dst)
        IN  ToolFinish([ToolCalled(<<"fileMoveOrRename">>, src, <<>>, "none", h)
                           EXCEPT !.dst = dst], h)

CallInsertLinesInFile ==
    /\ SmallFiles
    /\ \E path \in ToolPaths, editlines \in SampleInserts, afterMode \in BOOLEAN :
        LET h == Tool_insertLinesInFile(disk, path, editlines, afterMode)
        IN  ToolFinish(ToolCalled(<<"insertLinesInFile">>, path, editlines,
                                  IF afterMode THEN "after" ELSE "before", h), h)

CallEditLinesInFile ==
    /\ SmallFiles
    /\ \E path \in ToolPaths, editlines \in SampleEdits, flag \in PreviewFlags :
        LET h == Tool_editLinesInFile(disk, path, editlines, ZodPreviewDefault(flag))
        IN  ToolFinish(ToolCalled(<<"editLinesInFile">>, path, editlines,
                                  ZodPreviewDefault(flag), h), h)

CallDeleteLinesInFile ==
    /\ SmallFiles
    /\ \E path \in ToolPaths, editlines \in SampleDeletes :
        LET h == Tool_deleteLinesInFile(disk, path, editlines)
        IN  ToolFinish(ToolCalled(<<"deleteLinesInFile">>, path, editlines,
                                  "none", h), h)

CallScript ==
    \E name \in ScriptNames(config), exit \in ScriptExits :
        LET h == Tool_script(disk, config, name, exit)
        IN  ToolFinish(ToolCalled(ScriptToolName(name), <<>>, <<>>, "none", h), h)

InitTools ==
    /\ disk = InitDisk
    /\ config \in ToolConfigs
    /\ excludedPattern = allExcludedFiles(config)
    /\ log = <<>>
    /\ NoLogging
    /\ pc = "idle"
    /\ call = NoCall
    /\ served = 0
    /\ procs = NoProcs
    /\ tmp = <<>>
    /\ observed = <<>>

NextTools ==
    \/ CallDirectoryTree
    \/ CallCreateDirectory
    \/ CallRemoveDirectory
    \/ CallFileList
    \/ CallFindInFile
    \/ CallProjectGrep
    \/ CallFileReed
    \/ CallFileWrite
    \/ CallFileDelete
    \/ CallFileMoveOrRename
    \/ CallInsertLinesInFile
    \/ CallEditLinesInFile
    \/ CallDeleteLinesInFile
    \/ CallScript
    \/ Respond

SpecTools == InitTools /\ [][NextTools]_vars


\* ------------------------------------------------------- log files (logs.ts)

MAX_AGE_DAYS == 30

\* The days the clock is looked at: the first one, and the days a file of
\* the first day is one day short of the limit, at it, and past it.
Days == {0, MAX_AGE_DAYS - 1, MAX_AGE_DAYS, MAX_AGE_DAYS + 1}

\* A file of a log directory.  form: "dated" is mcp-<kind>-<YYYY-MM-DD>.log
\* with the date of `day`, "baddate" has that shape with digits that are no
\* date, "other" is any other name.  written: the day it was last appended
\* to.  locked: unlinkSync on it throws.
LogFile(dir, kind, form, day, written, locked) ==
    [dir |-> dir, kind |-> kind, form |-> form, day |-> day, written |-> written,
     locked |-> locked]

\* getLogFilePath(logKind), evaluated on the given day.
getLogFilePath(logKind, day) == LogFile(logKind, logKind, "dated", day, day, FALSE)

\* The directory of the configured log_path, and the file at that path.
ConfiguredLogDir == "configured"

ConfiguredLogFile(day) == LogFile(ConfiguredLogDir, "log_path", "other", day, day, FALSE)

\* file.match(/^mcp-[a-zA-Z0-9_-]+-(\d{4}-\d{2}-\d{2})\.log$/)
NameMatches(f) == f.form \in {"dated", "baddate"}

\* differenceInDays(new Date(), parseISO(match[1])) >= MAX_AGE_DAYS; the
\* difference to an invalid date is NaN, and NaN >= 30 is false.
TooOld(f, now) == f.form = "dated" /\ now - f.day >= MAX_AGE_DAYS

\* readdirSync(logDir): the directory's files in the order they are listed.
RECURSIVE ListingOf(_)
ListingOf(S) ==
    IF S = {} THEN <<>>
    ELSE LET f == CHOOSE x \in S : TRUE IN <<f>> \o ListingOf(S \ {f})

readdirSyncLogs(files, logDir) == ListingOf({f \in files : f.dir = logDir})

\* The loop of deleteOldLogs ending at the first unlink that throws.
RECURSIVE Sweep_stopAtFailure(_, _, _)
Sweep_stopAtFailure(listing, acc, now) ==
    IF listing = <<>> THEN acc
    ELSE LET f == Head(listing)
         IN  IF ~NameMatches(f) \/ ~TooOld(f, now)
             THEN Sweep_stopAtFailure(Tail(listing), acc, now)
             ELSE IF f.locked
                  THEN [acc EXCEPT !.logged = Append(@, "ERROR")]
                  ELSE Sweep_stopAtFailure(Tail(listing),
                           [acc EXCEPT !.files = @ \ {f},
                                       !.logged = Append(@, "INFO")], now)

\* for (const file of files) { ... }: a name that does not match is skipped,
\* a file of MAX_AGE_DAYS days or more is unlinked and the removal logged,
\* an unlink that throws is logged and the loop goes on.
RECURSIVE Sweep(_, _, _)
Sweep(listing, acc, now) ==
    IF listing = <<>> THEN acc
    ELSE LET f == Head(listing)
         IN  IF ~NameMatches(f) \/ ~TooOld(f, now) THEN Sweep(Tail(listing), acc, now)
             ELSE IF f.locked
                  THEN Sweep(Tail(listing),
                             [acc EXCEPT !.logged = Append(@, "ERROR")], now)
                  ELSE Sweep(Tail(listing),
                             [acc EXCEPT !.files = @ \ {f},
                                         !.logged = Append(@, "INFO")], now)

deleteOldLogs_stopAtFailure(files, logDir, now) ==
    Sweep_stopAtFailure(readdirSyncLogs(files, logDir),
                        [files |-> files, logged |-> <<>>], now)

\* deleteOldLogs(logDir): the files left, and the system log lines written.
deleteOldLogs(files, logDir, now) ==
    Sweep(readdirSyncLogs(files, logDir), [files |-> files, logged |-> <<>>], now)

\* appendFileSync(logPath, ...): the file is created when it is not there.
appendLog(files, logPath, now) ==
    LET there == {f \in files : f.dir = logPath.dir /\ f.kind = logPath.kind
                                 /\ f.form = logPath.form /\ f.day = logPath.day}
    IN  IF logPath.form = "other"
        THEN LET old == {f \in files : f.dir = logPath.dir /\ f.kind = logPath.kind
                                        /\ f.form = "other"}
             IN  IF old = {} THEN files \cup {[logPath EXCEPT !.day = now, !.written = now]}
                 ELSE (files \ old) \cup {[f EXCEPT !.written = now] : f \in old}
        ELSE IF there = {} THEN files \cup {[logPath EXCEPT !.written = now]}
        ELSE (files \ there) \cup {[f EXCEPT !.written = now] : f \in there}

\* The path the system logger writes to: systemLogPath, fixed at load.
systemLogPath == getLogFilePath("system", loadedOn)

\* createRequestErrorLogger(config.log_path): the configured path, or
\* requestLogPath, fixed at load, when none is configured.
requestLogPathOf(cfg) ==
    IF cfg.log_path.set THEN ConfiguredLogFile(0) ELSE getLogFilePath("request", loadedOn)

\* logs.ts is loaded: both paths are fixed for the day, then
\* deleteOldLogs(systemLogDir) and deleteOldLogs(requestLogDir) run, their
\* removals and failures written to the system log.
LoadLogs ==
    /\ loadedOn = NotLoaded
    /\ loadedOn' = today
    /\ LET sys == deleteOldLogs(logFiles, "system", today)
           req == deleteOldLogs(sys.files, "request", today)
       IN  logFiles' =
               IF sys.logged \o req.logged = <<>> THEN req.files
               ELSE appendLog(req.files, getLogFilePath("system", today), today)
    /\ UNCHANGED <<disk, excludedPattern, pc, call, served, procs, tmp, observed,
                   config, log, handled, today>>

\* A handler's requestLog(...) call.
RequestLogged ==
    /\ loadedOn # NotLoaded
    /\ logFiles' = appendLog(logFiles, requestLogPathOf(config), today)
    /\ UNCHANGED <<disk, excludedPattern, pc, call, served, procs, tmp, observed,
                   config, log, handled, today, loadedOn>>

\* A call of the logger createSystemLogger() returns.
SystemLogged ==
    /\ loadedOn # NotLoaded
    /\ logFiles' = appendLog(logFiles, systemLogPath, today)
    /\ UNCHANGED <<disk, excludedPattern, pc, call, served, procs, tmp, observed,
                   config, log, handled, today, loadedOn>>

\* Time passes to a later day, the server running or not.
DayPasses ==
    /\ \E d \in Days : d > today /\ today' = d
    /\ UNCHANGED <<disk, excludedPattern, pc, call, served, procs, tmp, observed,
                   config, log, handled, logFiles, loadedOn>>

\* The server process ends; it may be started again.
ServerExits ==
    /\ loadedOn # NotLoaded
    /\ loadedOn' = NotLoaded
    /\ UNCHANGED <<disk, excludedPattern, pc, call, served, procs, tmp, observed,
                   config, log, handled, logFiles, today>>

\* Files found in the log directories on the first day.
FoundLogFiles ==
    { LogFile("system", "system", "dated", 0, 0, FALSE),
      LogFile("request", "request", "dated", 0, 0, FALSE),
      LogFile("request", "old", "dated", 0, 0, TRUE),
      LogFile("request", "request", "baddate", 0, 0, FALSE),
      LogFile("request", "notes", "other", 0, 0, FALSE),
      LogFile(ConfiguredLogDir, "request", "dated", 0, 0, FALSE) }

LogConfigs ==
    { Config(Missing, Missing, Missing),
      [Config(Missing, Missing, Missing) EXCEPT !.log_path = Listed(<<ConfiguredLogDir>>)] }

InitLogs ==
    /\ disk = InitDisk
    /\ config \in LogConfigs
    /\ excludedPattern = allExcludedFiles(config)
    /\ log = <<>>
    /\ handled = <<>>
    /\ logFiles \in {S \in SUBSET FoundLogFiles : Cardinality(S) >= Cardinality(FoundLogFiles) - 1}
    /\ today = 0
    /\ loadedOn = NotLoaded
    /\ pc = "idle"
    /\ call = NoCall
    /\ served = 0
    /\ procs = NoProcs
    /\ tmp = <<>>
    /\ observed = <<>>

NextLogs ==
    \/ LoadLogs
    \/ RequestLogged
    \/ SystemLogged
    \/ DayPasses
    \/ ServerExits

SpecLogs == InitLogs /\ [][NextLogs]_vars


\* ------------------------------------------------------------------ claims

WriteFree(fsCalls) == \A i \in DOMAIN fsCalls : ~IsWrite(fsCalls[i])

\* Where a logical path leads: normalised below the root, links followed.
Target(path) == RealPath(Normalize(Root \o path))

InsideRoot(path) == IsPrefix(Root, Target(path))

HasDotDot(path) == \E i \in DOMAIN path : path[i] = ".."

\* The paths a call was given: one, or two for a move.
GivenPaths == IF call.op = "fileMoveOrRename" THEN {call.path, call.dst} ELSE {call.path}

SandboxErrors == {"PathEscapeError", "PathRestrictedError"}

\* C1: every filesystem call a core operation makes is on a path inside the
\* project root that no exclusion pattern matches; a call given a path that
\* escapes the root or is excluded ends in a sandbox error, and a call that
\* ends in a sandbox error has made no filesystem call and changed nothing.
C1_SandboxBeforeFilesystem ==
    pc = "done" =>
        /\ \A i \in DOMAIN call.fsCalls :
              /\ IsPrefix(Root, call.fsCalls[i].path)
              /\ ~isExcluded(call.fsCalls[i].path, excludedPattern)
        /\ (\E q \in GivenPaths :
               ~InsideRoot(q) \/ isExcluded(Target(q), excludedPattern))
           => call.outcome \in SandboxErrors \cup {"InvalidArguments"}
        /\ call.outcome \in SandboxErrors =>
              call.fsCalls = <<>> /\ disk = call.before

C1_Witness ==
    /\ pc = "done"
    /\ call.op = "deleteFile"
    /\ call.outcome = "ok"
    /\ call.fsCalls = <<FsCall("unlink", <<"r", "x", "a">>)>>

C7_PreviewNeverMutates ==
    pc = "done" /\ call.op = "editLines" /\ call.flag \in {"true", "omitted"} =>
        disk = call.before /\ WriteFree(call.fsCalls)

C7_Witness ==
    /\ pc = "done"
    /\ call.op = "editLines"
    /\ call.entry = "core"
    /\ call.flag = "omitted"
    /\ call.outcome = "ok"
    /\ call.content # call.before[<<"r", "a">>].text
    /\ call.path = <<"a">>

\* C9: nothing returned to the caller, message or content, success or error,
\* holds the absolute project root.
C9_NoAbsolutePathReturned ==
    pc = "done" => ~ContainsRoot(call.ret) /\ ~ContainsRoot(call.content)

\* Below directory X of the project, strictly.
Under(X, p) == IsPrefix(Append(Root, X), p) /\ Len(p) > Len(Root) + 1

DirPatterns == {i \in DOMAIN excludedPattern :
                   Len(excludedPattern[i]) = 2 /\ excludedPattern[i][2] = "**"}

OtherPatternMatches(i, p) ==
    \E j \in DOMAIN excludedPattern :
        j # i /\ GlobMatch(excludedPattern[j], ProjectRelative(p))

ResolvedPaths == {Target(q) : q \in {r \in InputPaths : InsideRoot(r)}}

\* C10: with a pattern X/** in the exclusion set, every path under X/ is
\* denied (isExcludedFiles is true, checkExcludedFiles throws, the call ends
\* in PathRestrictedError), and a path not under X/ that no other pattern
\* matches is allowed.
C10_DirectoryPatternDenies ==
    \A i \in DirPatterns :
        LET X == excludedPattern[i][1] IN
        /\ \A p \in ResolvedPaths :
              /\ Under(X, p) =>
                    /\ isExcludedFiles(p, excludedPattern)
                    /\ checkExcludedFiles(p, excludedPattern) = "PathRestrictedError"
              /\ ~Under(X, p) /\ ~OtherPatternMatches(i, p) =>
                    /\ ~isExcludedFiles(p, excludedPattern)
                    /\ checkExcludedFiles(p, excludedPattern) = "none"
        /\ pc = "done" /\ call.entry # "tool" /\ call.op # "fileMoveOrRename"
              /\ InsideRoot(call.path) =>
              /\ Under(X, Target(call.path)) => call.outcome = "PathRestrictedError"
              /\ ~Under(X, Target(call.path)) /\ ~OtherPatternMatches(i, Target(call.path))
                    => call.outcome # "PathRestrictedError"

C10_Witness ==
    /\ pc = "done"
    /\ call.op = "writeFile"
    /\ call.path = <<"x", "a">>
    /\ excludedPattern = << <<"a">>, <<"x", "**">> >>
    /\ call.outcome = "PathRestrictedError"


\* ---------------------------------------------------- claims on batches

IsEditCall == call.op \in {"editLines", "insertLines", "deleteLines"}

IsInsertOp(e) == "lineNumber" \in DOMAIN e

\* The lines an operation addresses.
Range(e) == IF IsInsertOp(e) THEN {e.lineNumber} ELSE e.startLine..e.endLine

BadBounds(e) ==
    IF IsInsertOp(e) THEN e.lineNumber < 1
    ELSE e.startLine < 1 \/ e.endLine < 1 \/ e.startLine > e.endLine

FailsValidation(batch) ==
    \/ \E i \in DOMAIN batch : BadBounds(batch[i])
    \/ \E i, j \in DOMAIN batch : i # j /\ Range(batch[i]) \cap Range(batch[j]) # {}

Writes(fsCalls) == {i \in DOMAIN fsCalls : IsWrite(fsCalls[i])}

\* C5: an edit batch that fails validation (a bound below 1, a reversed
\* range, two operations sharing a line) fails with InvalidRangeError, applies
\* none of its operations and leaves the file as it was.
C5_BatchAtomicity ==
    pc = "done" /\ IsEditCall /\ FailsValidation(call.batch) =>
        /\ call.outcome = "InvalidRangeError"
        /\ disk = call.before
        /\ Writes(call.fsCalls) = {}

C5_Witness ==
    /\ pc = "done"
    /\ call.op = "deleteLines"
    /\ call.batch = <<[startLine |-> 1, endLine |-> 1], [startLine |-> 2, endLine |-> 0]>>
    /\ call.outcome = "InvalidRangeError"
    /\ Len(Split(disk[EditFile].text)) = MaxLines

\* The call made again on the state it was made on, with another batch.
Redo(batch) ==
    CASE call.op = "editLines" ->
            mulchEditLinesInFileCore(call.before,
                CoreParams([path |-> call.path, editlines |-> batch,
                            previewFlg |-> call.flag]))
      [] call.op = "insertLines" ->
            mulchInsertLinesInFileCore(call.before,
                CoreParams([path |-> call.path, editlines |-> batch,
                            afterMode |-> (call.flag = "after")]))
      [] OTHER ->
            mulchDeleteLinesInFileCore(call.before,
                CoreParams([path |-> call.path, editlines |-> batch]))

Reorderings(batch) ==
    {[i \in DOMAIN batch |-> batch[f[i]]] : f \in Permutations(DOMAIN batch)}

\* What a batch asks for, read off line by line from the original document.
NewLinesOf(e) == IF "content" \in DOMAIN e THEN Split(e.content) ELSE <<>>

LineOut(lines, batch, after, n) ==
    LET hits == {i \in DOMAIN batch : n \in Range(batch[i])}
    IN  IF hits = {} THEN <<lines[n]>>
        ELSE LET e == batch[CHOOSE i \in hits : TRUE]
             IN  IF IsInsertOp(e)
                 THEN IF after THEN <<lines[n]>> \o NewLinesOf(e)
                      ELSE NewLinesOf(e) \o <<lines[n]>>
                 ELSE IF n = e.startLine THEN NewLinesOf(e) ELSE <<>>

RECURSIVE LinesFrom(_, _, _, _)
LinesFrom(lines, batch, after, n) ==
    IF n > Len(lines) THEN <<>>
    ELSE LineOut(lines, batch, after, n) \o LinesFrom(lines, batch, after, n + 1)

StartsInside(batch, lines) ==
    \A i \in DOMAIN batch :
        (IF IsInsertOp(batch[i]) THEN batch[i].lineNumber ELSE batch[i].startLine)
            <= Len(lines)

\* The document a finished edit call produced: written, or shown in preview.
ProducedText == IF call.flag = "true" THEN call.content ELSE disk[EditFile].text

\* C6: an accepted batch gives the same document in whatever order its
\* operations are submitted, and that document is the original with every
\* operation applied at its original line numbers.
C6_OrderIndependence ==
    pc = "done" /\ IsEditCall /\ call.outcome = "ok" /\ call.path = EditTarget =>
        /\ \A b \in Reorderings(call.batch) :
              /\ Redo(b).outcome = "ok"
              /\ Redo(b).disk = disk
              /\ Redo(b).content = call.content
        /\ StartsInside(call.batch, Split(call.before[EditFile].text)) =>
              ProducedText =
                  Join(LinesFrom(Split(call.before[EditFile].text), call.batch,
                                 call.flag = "after", 1))

C6_Witness ==
    /\ pc = "done"
    /\ call.op = "editLines"
    /\ call.outcome = "ok"
    /\ call.flag = "false"
    /\ Len(call.batch) = 2
    /\ call.batch[1].startLine = 1
    /\ call.batch[2].startLine = 2
    /\ call.batch[1].content = <<"X", NL, "Y">>
    /\ Split(disk[EditFile].text) = << <<"X">>, <<"Y">>, <<"X">> >> \o SubSeq(LineNames, 3, MaxLines)

\* C8: a successful edit call that is not a preview writes the target file
\* exactly once; a preview, and a call that fails validation, writes nothing.
C8_OneWritePerEdit ==
    pc = "done" /\ IsEditCall =>
        /\ call.outcome = "ok" /\ call.flag \notin {"true", "omitted"} =>
              /\ Cardinality(Writes(call.fsCalls)) = 1
              /\ \A i \in Writes(call.fsCalls) : call.fsCalls[i].path = Target(call.path)
        /\ call.flag \in {"true", "omitted"} \/ call.outcome = "InvalidRangeError" =>
              Writes(call.fsCalls) = {}

C8_Witness ==
    /\ pc = "done"
    /\ call.op = "insertLines"
    /\ call.outcome = "ok"
    /\ Len(call.batch) = 2
    /\ call.fsCalls = <<FsCall("read", EditFile), FsCall("write", EditFile)>>


\* -------------------------------------------- claims on concurrent requests

Finished(P) == \A p \in P : procs[p].pc = "done"

After(text, splices) == Join(ApplyBatch(Split(text), splices))

\* C3 as claimed: when two concurrent edit batches have both finished, the
\* file holds the two batches applied one after the other in some order.
C3_EditsSerialised ==
    Finished(Editors) /\ procs["w"].pc = "start" =>
        \E p, q \in Editors :
            /\ p # q
            /\ disk[EditFile].text =
                   After(After(InitialText, procs[p].splices), procs[q].splices)

\* The contents the file has held or is about to hold: what it started as
\* and the complete output of every write begun.
CompleteContents ==
    {InitialText} \cup
        {procs[p].out : p \in {q \in Writers : procs[q].pc \in {"writing", "written", "done"}}}

\* C4: a read made while writes are in flight returns a complete content,
\* never a partly written one, and once every writer has finished the file
\* holds the complete output of the writer that finished last.
C4_AtomicReplace ==
    /\ observed.reads \subseteq CompleteContents
    /\ disk[EditFile].text \in CompleteContents
    /\ Finished(Writers) => disk[EditFile].text = procs[observed.last].out

C4_Witness ==
    /\ Finished(Writers)
    /\ observed.last = "e1"
    /\ {InitialText, <<"W">>} \subseteq observed.reads
    /\ Cardinality(observed.reads) = 3


\* ------------------------------------------------- claims on the session

ListPatterns(list) == IF list.set THEN {list.items[i] : i \in DOMAIN list.items} ELSE {}

ConfiguredPatterns ==
    ListPatterns(config.excluded_files) \cup ListPatterns(config.project.excluded_files)

\* C11: the exclusion set of the session holds exactly the patterns of the
\* global list and of the project's list, a missing list adding none, and a
\* call on a path that a pattern of either list matches is denied whatever
\* the other list holds.
C11_ExclusionUnion ==
    /\ {excludedPattern[i] : i \in DOMAIN excludedPattern} = ConfiguredPatterns
    /\ pc = "done" /\ call.op # "fileMoveOrRename" /\ InsideRoot(call.path)
          /\ call.outcome # "InvalidArguments" =>
          ((\E pat \in ConfiguredPatterns :
                GlobMatch(pat, ProjectRelative(Target(call.path))))
              => call.outcome = "PathRestrictedError")

C11_Witness ==
    /\ config.excluded_files.set
    /\ config.project.excluded_files.set
    /\ pc = "done"
    /\ call.op = "readFile"
    /\ call.path = <<"a">>
    /\ call.outcome = "PathRestrictedError"


\* ---------------------------------------------------- claims on searches

IsSearch(op) == pc = "done" /\ call.op = op /\ call.outcome = "ok"

\* Excluded for this call: by the session's set or by the call's own exclude.
ExcludedForCall(q) == isExcluded(q, excludedPattern \o call.options.exclude)

\* C12 as claimed: a project-wide search skips every file the exclusion set
\* (session and per-call) matches: the call succeeds, reads no such file and
\* returns no match from one.
C12_ExcludedFilesNotScanned ==
    pc = "done" /\ call.op = "projectGrep" =>
        /\ call.outcome = "ok"
        /\ \A i \in DOMAIN call.fsCalls :
              call.fsCalls[i].op = "read" => ~ExcludedForCall(call.fsCalls[i].path)
        /\ \A i \in DOMAIN call.matches : ~ExcludedForCall(call.matches[i].filePath)

\* The tested lines that hold the pattern.
Hits == {i \in DOMAIN call.scanned :
            LineHas(Split(call.before[call.scanned[i][1]].text)[call.scanned[i][2]], "a")}

\* C13: a search with maxResults = N returns at most N matches, and once N
\* matches are collected nothing more is scanned: the N-th match is the last
\* line tested and its file the last one read.
C13_MaxResultsCap ==
    (IsSearch("projectGrep") \/ IsSearch("findInFile")) /\ call.options.maxResults > 0 =>
        /\ Len(call.matches) <= call.options.maxResults
        /\ Cardinality(Hits) <= call.options.maxResults
        /\ Cardinality(Hits) = call.options.maxResults =>
              /\ Len(call.scanned) \in Hits
              /\ call.fsCalls[Len(call.fsCalls)] =
                     FsCall("read", call.scanned[Len(call.scanned)][1])

C13_Witness ==
    /\ IsSearch("projectGrep")
    /\ call.options.maxResults = 2
    /\ Len(call.matches) = 2
    /\ call.matches[1].filePath = <<"r", "a">>
    /\ call.matches[2].filePath = <<"r", "x", "a">>
    /\ \A i \in DOMAIN call.fsCalls : call.fsCalls[i].path # <<"r", "x", "x">>

\* Paths compared segment by segment, names in name order.
RECURSIVE PathBefore(_, _)
PathBefore(p, q) ==
    IF p = <<>> THEN q # <<>>
    ELSE IF q = <<>> THEN FALSE
    ELSE IF Head(p) # Head(q) THEN NameRank(Head(p)) < NameRank(Head(q))
    ELSE PathBefore(Tail(p), Tail(q))

\* By directory, then by file name, then by line number.
MatchBefore(m, n) ==
    LET dm == Parent(m.filePath)
        dn == Parent(n.filePath)
    IN  IF dm # dn THEN PathBefore(dm, dn)
        ELSE IF m.filePath # n.filePath THEN PathBefore(m.filePath, n.filePath)
        ELSE m.lineNumber < n.lineNumber

\* C14: the results of a project-wide search are ordered by file path,
\* directory first, then by line number, and are the same whatever order the
\* filesystem enumerates directory entries in.
C14_ResultOrdering ==
    IsSearch("projectGrep") =>
        /\ \A i, j \in DOMAIN call.matches :
              i < j => MatchBefore(call.matches[i], call.matches[j])
        /\ \A e \in Enums :
              CoreProjectGrep(call.before, "a", call.options, e).matches = call.matches

C14_Witness ==
    /\ IsSearch("projectGrep")
    /\ call.enum = <<"x", "ln", "a">>
    /\ Len(call.matches) >= 4
    /\ call.matches[1].filePath = <<"r", "a">>
    /\ call.matches[Len(call.matches)].filePath = <<"r", "x", "x">>

\* C15: a match at line n of a file of L lines, searched with context c,
\* carries the lines max(1, n-c) .. n-1 before it and n+1 .. min(L, n+c)
\* after it, in file order.
C15_ContextWindow ==
    IsSearch("findInFile") =>
        \A i \in DOMAIN call.matches :
            LET m == call.matches[i]
                lines == Split(call.before[m.filePath].text)
                n == m.lineNumber
                c == call.options.context
                lo == IF n - c < 1 THEN 1 ELSE n - c
                hi == IF n + c > Len(lines) THEN Len(lines) ELSE n + c
            IN  /\ m.line = lines[n]
                /\ Len(m.before) = n - lo
                /\ \A k \in 1..(n - lo) : m.before[k] = lines[lo + k - 1]
                /\ Len(m.after) = hi - n
                /\ \A k \in 1..(hi - n) : m.after[k] = lines[n + k]

C15_Witness ==
    /\ IsSearch("findInFile")
    /\ call.path = <<"a">>
    /\ call.options.context = 2
    /\ \E i \in DOMAIN call.matches :
          /\ call.matches[i].lineNumber = 2
          /\ Len(call.matches[i].before) = 1
          /\ Len(call.matches[i].after) = 1


\* ------------------------------------------------------- claims on trees

IsTree == pc = "done" /\ call.op = "directoryTree" /\ call.outcome = "ok"

TreeBase == Target(call.path)

\* The tree text read back: after the heading, one entry per line, each
\* under the last entry one level up.
DepthOf(tok) == CHOOSE i \in DOMAIN DepthTok : DepthTok[i] = tok

RECURSIVE ParseTree(_, _)
ParseTree(text, chain) ==
    IF Len(text) < 3 THEN <<>>
    ELSE LET here == Append(SubSeq(chain, 1, DepthOf(text[2]) - 1), text[3])
         IN  <<TreeBase \o here>> \o ParseTree(SubSeq(text, 4, Len(text)), here)

ListedPaths ==
    ParseTree(SubSeq(call.ret, 2 + Len(TreeBase) - Len(Root), Len(call.ret)), <<>>)

TreeExcluded(q) == isExcluded(q, excludedPattern \o call.batch)

\* C16: the tree lists no entry that a pattern of the session's set or of
\* the call's exclude matches, and nothing below such an entry.
C16_TreeHidesExcluded ==
    IsTree =>
        \A i \in DOMAIN ListedPaths :
            \A k \in (Len(TreeBase) + 1)..Len(ListedPaths[i]) :
                ~TreeExcluded(SubSeq(ListedPaths[i], 1, k))

C16_Witness ==
    /\ IsTree
    /\ call.path = <<>>
    /\ excludedPattern = << <<"x">> >>
    /\ call.batch = <<>>
    /\ ListedPaths = << <<"r", "a">>, <<"r", "ln">> >>

\* C17: a link is listed as a leaf and never entered: nothing is listed
\* below it, and the tree lists only entries of the directory structure, each
\* once, so it is finite even where a link points back to an ancestor.
C17_LinksNotFollowed ==
    IsTree =>
        /\ \A i \in DOMAIN ListedPaths : Node(call.before, ListedPaths[i]).kind # "absent"
        /\ \A i, j \in DOMAIN ListedPaths :
              Node(call.before, ListedPaths[i]).kind = "link" /\ i # j
                  => ~IsPrefix(ListedPaths[i], ListedPaths[j])
        /\ \A i, j \in DOMAIN ListedPaths : i # j => ListedPaths[i] # ListedPaths[j]

C17_Witness ==
    /\ IsTree
    /\ call.path = <<>>
    /\ disk[LinkPath] = [kind |-> "link", text |-> Root]
    /\ ListedPaths = << <<"r", "a">>, <<"r", "ln">>, <<"r", "x">>,
                   <<"r", "x", "a">>, <<"r", "x", "x">> >>

\* ------------------------------------------- claims on the tool handlers

EditTools == {"insertLinesInFile", "editLinesInFile", "deleteLinesInFile"}

Carries(text, sentence) == \E i \in DOMAIN text : text[i] = sentence

EditAnswered == pc = "done" /\ call.op \in EditTools /\ call.outcome = "ok"

Previewed == call.op = "editLinesInFile" /\ call.flag = "true"

\* C18 as claimed: every answer of an edit tool (insert, replace, delete;
\* previewed or saved) tells the caller that line numbers have shifted and
\* the file has to be read again.
C18_EveryEditSaysReread ==
    EditAnswered => Carries(call.response.text, RereadNotice)

\* C18 as amended: every answer of a saved edit (insert, delete, replace
\* with preview off) carries the re-read sentence; the answer of a previewed
\* replace carries the run-again-with-preview-false sentence in its place
\* and leaves the file as it was.
C18_SavedEditSaysReread ==
    EditAnswered =>
        IF Previewed
        THEN /\ Carries(call.response.text, RerunNotice)
             /\ ~Carries(call.response.text, RereadNotice)
             /\ disk = call.before
        ELSE /\ Carries(call.response.text, RereadNotice)
             /\ ~Carries(call.response.text, RerunNotice)

C18_Witness ==
    /\ EditAnswered
    /\ call.op = "editLinesInFile"
    /\ call.flag = "false"
    /\ disk # call.before
    /\ Carries(call.response.text, RereadNotice)

\* C19 as claimed: whenever the core call of a tool handler fails, the
\* handler writes the error to the request log and answers with an error
\* response carrying the error's message.
C19_ErrorsLoggedAndReturned ==
    pc = "done" /\ call.outcome # "ok" =>
        /\ call.response.isError
        /\ call.response.text = <<"500">> \o call.ret
        /\ \E i \in DOMAIN log :
               /\ i > Len(call.logBefore)
               /\ log[i] = requestLog(500, call.ret)

ExecCalls(fsCalls) == {i \in DOMAIN fsCalls : fsCalls[i].op = "exec"}

ScriptTools(cfg) == RegisteredTools(cfg) \ FixedTools

\* C20: the commands run are exactly the configured ones: every configured
\* script has its own tool script_<name>, every script tool belongs to a
\* configured script and takes no command from its caller, a project
\* without scripts has no script tool, and whenever a command is run it is
\* the command configured under the name of the tool that was called.
C20_ScriptsWhitelisted ==
    /\ \A n \in ScriptNames(config) : ScriptToolName(n) \in RegisteredTools(config)
    /\ Cardinality(ScriptTools(config)) = Cardinality(ScriptNames(config))
    /\ ~config.project.scripts.set => ScriptTools(config) = {}
    /\ \A t \in ScriptTools(config) : ToolSchema(t) = {"requestId"}
    /\ pc = "done" =>
           \A i \in ExecCalls(call.fsCalls) :
               /\ call.op = "script"
               /\ call.tool \in ScriptTools(config)
               /\ \E j \in DOMAIN config.project.scripts.items :
                      LET s == config.project.scripts.items[j]
                      IN  /\ call.tool = ScriptToolName(s.name)
                          /\ call.fsCalls[i].path = s.scriptCmd

C20_Witness ==
    /\ pc = "done"
    /\ call.op = "script"
    /\ call.outcome = "ok"
    /\ ExecCalls(call.fsCalls) # {}
    /\ Cardinality(ScriptNames(config)) = 2

\* ------------------------------------------- claims on what an edit leaves

DocBefore == Split(call.before[EditFile].text)

FirstLines(lines, n) == SubSeq(lines, 1, Min(n, Len(lines)))

LinesAfter(lines, n) == SubSeq(lines, Min(n, Len(lines)) + 1, Len(lines))

EditedOnce(op) ==
    /\ pc = "done"
    /\ call.op = op
    /\ call.path = EditTarget
    /\ call.outcome = "ok"
    /\ Len(call.batch) = 1

\* C22: an accepted insert at line k of document D leaves D[1..k-1], the
\* lines of the content, D[k..] when after is false, and D[1..k], the lines
\* of the content, D[k+1..] when after is true.
C22_InsertSemantics ==
    EditedOnce("insertLines") =>
        LET k == call.batch[1].lineNumber
            at == IF call.flag = "after" THEN k ELSE k - 1
        IN  disk[EditFile].text =
                Join(FirstLines(DocBefore, at) \o Split(call.batch[1].content)
                         \o LinesAfter(DocBefore, at))

C22_Witness ==
    /\ EditedOnce("insertLines")
    /\ call.flag = "after"
    /\ call.batch[1].lineNumber = 1
    /\ call.batch[1].content = <<"X", NL, "Y">>
    /\ Split(disk[EditFile].text) = << <<"a">>, <<"X">>, <<"Y">>, <<"b">> >>

ReplacedLines ==
    FirstLines(DocBefore, call.batch[1].startLine - 1)
        \o Split(call.batch[1].content)
        \o LinesAfter(DocBefore, call.batch[1].endLine)

\* C23 as claimed: an accepted Replace(s, e, content) of a document of L
\* lines leaves D[1..s-1], the m lines of the content, D[e+1..L], and that is
\* L - (e - s + 1) + m lines, also when e exceeds L.
C23_ReplaceLength ==
    EditedOnce("editLines") =>
        /\ ProducedText = Join(ReplacedLines)
        /\ Len(Split(ProducedText)) =
               Len(DocBefore)
                   - (call.batch[1].endLine - call.batch[1].startLine + 1)
                   + Len(Split(call.batch[1].content))

\* C23 as amended: an accepted Replace(s, e, content) leaves D[1..s-1], the
\* m lines of the content, D[e+1..L]; that is L - (e - s + 1) + m lines when
\* e is at most L, and min(s - 1, L) + m lines when e exceeds L.
C23_ReplaceSemantics ==
    EditedOnce("editLines") =>
        LET s == call.batch[1].startLine
            e == call.batch[1].endLine
            L == Len(DocBefore)
            n == Len(Split(call.batch[1].content))
        IN  /\ ProducedText = Join(ReplacedLines)
            /\ e <= L => Len(Split(ProducedText)) = L - (e - s + 1) + n
            /\ e > L => Len(Split(ProducedText)) = Min(s - 1, L) + n

C23_Witness ==
    /\ EditedOnce("editLines")
    /\ call.flag = "false"
    /\ Len(DocBefore) = 2
    /\ call.batch[1].startLine = 2
    /\ call.batch[1].endLine = 3
    /\ Split(disk[EditFile].text) = << <<"a">>, <<"X">> >>

DeletedLineNos(batch) == UNION {batch[i].startLine..batch[i].endLine : i \in DOMAIN batch}

RECURSIVE KeptFrom(_, _, _)
KeptFrom(lines, gone, n) ==
    IF n > Len(lines) THEN <<>>
    ELSE (IF n \in gone THEN <<>> ELSE <<lines[n]>>) \o KeptFrom(lines, gone, n + 1)

\* C24: an accepted delete batch leaves exactly the lines whose original
\* number lies in none of the batch's ranges, in their original order.
C24_DeleteSemantics ==
    pc = "done" /\ call.op = "deleteLines" /\ call.path = EditTarget
        /\ call.outcome = "ok" =>
            disk[EditFile].text =
                Join(KeptFrom(DocBefore, DeletedLineNos(call.batch), 1))

C24_Witness ==
    /\ pc = "done"
    /\ call.op = "deleteLines"
    /\ call.outcome = "ok"
    /\ call.batch = <<[startLine |-> 1, endLine |-> 1], [startLine |-> 3, endLine |-> 3]>>
    /\ Len(DocBefore) = 3
    /\ Split(disk[EditFile].text) = << <<"b">> >>

\* C25: a batch is accepted exactly when every bound is at least 1, no
\* replace or delete range is reversed, and no two operations share a line
\* (two inserts at one line included); any other batch is rejected whole.
C25_ValidationExact ==
    pc = "done" /\ IsEditCall /\ call.path = EditTarget =>
        /\ call.outcome \in {"ok", "InvalidRangeError"}
        /\ call.outcome = "InvalidRangeError" <=> FailsValidation(call.batch)

C25_Witness ==
    /\ pc = "done"
    /\ call.op = "insertLines"
    /\ Len(call.batch) = 2
    /\ call.batch[1].lineNumber = 2
    /\ call.batch[2].lineNumber = 2
    /\ call.outcome = "InvalidRangeError"
    /\ disk = call.before

\* ---------------------------------------------------- claims on the move

Refused(q) == ~InsideRoot(q) \/ isExcluded(Target(q), excludedPattern)

\* C26: a move whose source or destination lies outside the project root or
\* matches an exclusion pattern fails with a sandbox error before any
\* filesystem call, leaving every file where it was; a move that reaches
\* the filesystem has passed both checks on both paths.
C26_MoveChecksBothEnds ==
    pc = "done" /\ call.op = "fileMoveOrRename" =>
        /\ Refused(call.path) \/ Refused(call.dst) =>
              /\ call.outcome \in SandboxErrors
              /\ call.fsCalls = <<>>
              /\ disk = call.before
        /\ call.fsCalls # <<>> => ~Refused(call.path) /\ ~Refused(call.dst)

C26_Witness ==
    /\ pc = "done"
    /\ call.op = "fileMoveOrRename"
    /\ call.path = <<"a">>
    /\ ~Refused(call.path)
    /\ call.dst = <<"x", "x">>
    /\ call.outcome = "PathRestrictedError"
    /\ disk = call.before
    /\ Node(disk, <<"r", "a">>).kind = "file"

\* ------------------------------------------- claims on the project search

\* Project roots the search is made from: the filesystem root, the
\* modelled project, a directory below it.
SearchRoots == {<<>>, Root, <<"r", "x">>}

GrepFrom(R, options) ==
    projectGrepCore(disk, [pattern |-> "a", options |-> options, enum |-> SegOrder,
                           projectPath |-> R, excludedPattern |-> excludedPattern])

\* C27: the logical root "/" resolves to the project root itself, for every
\* project root, and a project search never fails with PathEscapeError: it
\* walks the tree from the project root and reads nothing outside it.
C27_RootResolvesToRoot ==
    /\ \A R \in SearchRoots :
          /\ resolveSafeProjectPath(<<>>, R) = [err |-> "none", path |-> R]
          /\ LET r == GrepFrom(R, DefaultOptions)
             IN  /\ r.outcome # "PathEscapeError"
                 /\ r.fsCalls[1] = FsCall("readdir", R)
                 /\ \A i \in DOMAIN r.fsCalls : IsPrefix(R, r.fsCalls[i].path)
    /\ pc = "done" /\ call.op = "projectGrep" =>
          /\ call.outcome = "ok"
          /\ call.fsCalls[1] = FsCall("readdir", Root)
          /\ \A i \in DOMAIN call.fsCalls : IsPrefix(Root, call.fsCalls[i].path)

C27_Witness ==
    /\ pc = "done"
    /\ call.op = "projectGrep"
    /\ call.outcome = "ok"
    /\ call.fsCalls[1] = FsCall("readdir", Root)
    /\ Len(call.matches) > 0
    /\ GrepFrom(<<"r", "x">>, DefaultOptions).outcome = "ok"

\* The matches an uncapped search of the same tree returns.
AllowedMatches ==
    CoreProjectGrep(call.before, "a", GrepOptions(0, 0, call.options.exclude),
                    call.enum).matches

\* C28 as claimed: when at least maxResults matches lie in files the
\* session's exclusion set allows, a capped project search returns exactly
\* maxResults matches, none of them from an excluded file.
C28_CapCountsAllowedOnly ==
    pc = "done" /\ call.op = "projectGrep" /\ call.options.maxResults > 0
        /\ Len(AllowedMatches) >= call.options.maxResults =>
            /\ Len(call.matches) = call.options.maxResults
            /\ \A i \in DOMAIN call.matches :
                   ~isExcludedFiles(call.matches[i].filePath, excludedPattern)

\* ------------------------------------------------- claims on request ids

RegistrationIds == {RegistrationId(DefaultIdTools[i]) : i \in DOMAIN DefaultIdTools}

\* C29 as claimed: a request that leaves requestId out is handled under an
\* id generated for that request: not one fixed when the tool was
\* registered, and not the id of any request handled before.
C29_FreshIdPerRequest ==
    pc = "done" /\ call.entry = "tool" /\ call.requestId = NoRequestId =>
        /\ call.finalRequestId \notin RegistrationIds
        /\ \A i \in 1..(Len(handled) - 1) : handled[i] # call.finalRequestId

\* ---------------------------------------------------- claims on log files

LogDirs == {"system", "request", ConfiguredLogDir}

\* The files of a directory deleteOldLogs is to remove at a given time.
Expired(files, logDir, now) ==
    {f \in files : f.dir = logDir /\ f.form = "dated" /\ now - f.day >= MAX_AGE_DAYS}

\* C30: deleteOldLogs(dir) removes exactly the files of dir named
\* mcp-<kind>-<date>.log whose date lies 30 days or more back and whose
\* unlink succeeds; a file with another name, a younger file and every file
\* of another directory stay, and an unlink that fails stops nothing.  After
\* logs.ts has run it on the system and request directories, neither holds
\* a removable file of 30 days or more.
C30_SweepDeletesOnlyOldLogs ==
    /\ \A logDir \in LogDirs, now \in Days :
          deleteOldLogs(logFiles, logDir, now).files =
              logFiles \ {f \in Expired(logFiles, logDir, now) : ~f.locked}
    /\ loadedOn = today =>
          \A logDir \in {"system", "request"} :
              \A f \in Expired(logFiles, logDir, today) : f.locked

C30_Witness ==
    /\ loadedOn = today
    /\ today = MAX_AGE_DAYS
    /\ LogFile("request", "old", "dated", 0, 0, TRUE) \in logFiles
    /\ LogFile("request", "request", "dated", 0, 0, FALSE) \notin logFiles
    /\ LogFile("request", "request", "baddate", 0, 0, FALSE) \in logFiles
    /\ LogFile("request", "notes", "other", 0, 0, FALSE) \in logFiles
    /\ getLogFilePath("system", today) \in logFiles

\* The files the two loggers have written.
WrittenByLogger(f) ==
    \/ f.kind = "log_path"
    \/ f.form = "dated" /\ f.kind = f.dir /\ f.dir \in {"system", "request"}

\* The directories the loggers of a configuration write to.
WrittenDirs(cfg) ==
    {"system"} \cup (IF cfg.log_path.set THEN {ConfiguredLogDir} ELSE {"request"})

\* C21 as claimed: every file a logger writes is the file of the day it is
\* written on, and once the server has started no directory a logger writes
\* to (the directory of a configured log_path included) holds a removable
\* log file of 30 days or more.
C21_DailyLogsSwept ==
    /\ \A f \in logFiles :
          WrittenByLogger(f) => f.form = "dated" /\ f.written = f.day
    /\ loadedOn = today =>
          \A f \in logFiles :
              f.dir \in WrittenDirs(config) /\ ~f.locked
                  /\ (f.form = "dated" \/ WrittenByLogger(f))
              => today - f.day < MAX_AGE_DAYS

=============================================================================
